---- MODULE Spec2Model ----
(***************************************************************************)
(* Batch analysis engine of PR-MVP: the POST /batch and GET /batch/:id     *)
(* routes, BatchService.processBatch / processSinglePRWithTimeout /        *)
(* processSinglePR, and the rows of DatabaseService they read and write.   *)
(*                                                                         *)
(* One batch token is followed from creation to its terminal status.  The  *)
(* pull_requests / pr_reports tables may already hold the rows of earlier  *)
(* runs.  Every await of processSinglePR is one step of the item, so the   *)
(* items of a wave (and pipelines abandoned by a fired timer) interleave.  *)
(* The batch_analyses row is written by the awaited statements of          *)
(* processBatch, which are taken to return (the Progress Store contract);  *)
(* every collaborator call inside processSinglePR may raise.               *)
(***************************************************************************)
EXTENDS Integers, Sequences, FiniteSets, TLC

\* ---------------------------------------------------------------- bounds
MaxItems == 2

\* ------------------------------------------------------ program constants
PrTimeoutMs == 60000
BatchTimeoutMs == 900000

NULL == "null"

\* Pull-request references {org, repo, pr_number} a batch may name.
RefA == [org |-> "o", repo |-> "a", pr_number |-> 1]
RefB == [org |-> "o", repo |-> "b", pr_number |-> 2]
Refs == {RefA, RefB}

\* Non-empty parsed lists of at most MaxItems references.  The two references
\* are interchangeable, so the lists are taken to begin with RefA.
PrLists == { l \in UNION { [1..n -> Refs] : n \in 1..MaxItems } : l[1] = RefA }

\* Values the constructor argument concurrencyLimit takes (the route passes 2).
ConcurrencyLimits == {1, 2}

\* Messages a collaborator's Error may carry.
RaiseMsgs == {"collaborator error"}

VARIABLES
  batch,            \* the batch_analyses row of the token (None before createBatch)
  prList,           \* processBatch argument
  concurrencyLimit, \* BatchService.concurrencyLimit
  bpc,              \* position of processBatch
  i,                \* loop index of processBatch
  results,          \* local results array of processBatch
  elapsed,          \* Date.now() - batchStartTime
  timer,            \* time left on the setTimeout timers of the current wave
  ipc,              \* position of processSinglePR of each item
  settled,          \* settlement of each item's processSinglePRWithTimeout promise
  calls,            \* collaborator calls each item's pipeline has made
  pull_requests,    \* pull_requests row per ref: who wrote it last
  pr_reports,       \* pr_reports row per ref: who wrote it last
  waves,            \* number of waves started
  polled,           \* last response of GET /batch/:batchId
  pr_list,          \* body of the POST /batch request
  dbUp,             \* whether the INSERT of createBatch succeeds
  response,         \* reply of POST /batch
  githubData,       \* what fetchPRData returned to the pipeline run followed
  dpc,              \* position of that run in lines 144-199 of processSinglePR
  commit_diffs,     \* rows of table commit_diffs, in insertion order
  review_driven_changes, \* rows of table review_driven_changes
  runs,             \* concurrent pipeline runs saving to these two tables
  reviewRange       \* the commits fetchReviewDrivenChanges was asked to compare

\* the variables of the POST /batch route
routeVars == << pr_list, dbUp, response >>

\* the variables of the commit-diff steps of one pipeline run
diffVars == << githubData, dpc, commit_diffs, review_driven_changes, runs,
              reviewRange >>

\* the variables the batch engine leaves alone
otherVars == << routeVars, diffVars >>

vars == << batch, prList, concurrencyLimit, bpc, i, results, elapsed, timer,
           ipc, settled, calls, pull_requests, pr_reports, waves, polled, otherVars >>

\* ------------------------------------------------------------- helpers
Min(a, b) == IF a < b THEN a ELSE b

N == Len(prList)

Items == 1..N

\* Mutant: the slice takes one item more than the limit
ChunkOversized == (i + 1)..Min(i + concurrencyLimit + 1, N)

\* prList.slice(i, i + concurrencyLimit), as the set of 1-based item numbers
Chunk == (i + 1)..Min(i + concurrencyLimit, N)

NoRow == "none"
OldRow == "old"
Writer(k) == ToString(k)

IsPrefix(s, t) == Len(s) <= Len(t) /\ SubSeq(t, 1, Len(s)) = s

\* `Timeout processing ${pr.org}/${pr.repo}#${pr.pr_number}`
TimeoutMessage(pr) ==
  "Timeout processing " \o pr.org \o "/" \o pr.repo \o "#" \o ToString(pr.pr_number)

\* error.message || 'Failed to process PR'
PipelineErrorMessage(m) == IF m = "" THEN "Failed to process PR" ELSE m

\* result.reason?.message || 'Unknown error'
RejectionMessage(m) == IF m = "" THEN "Unknown error" ELSE m

SuccessResult(pr) ==
  [org |-> pr.org, repo |-> pr.repo, pr_number |-> pr.pr_number,
   success |-> TRUE, error |-> NULL]

FailureResult(pr, msg) ==
  [org |-> pr.org, repo |-> pr.repo, pr_number |-> pr.pr_number,
   success |-> FALSE, error |-> msg]

\* An optional value: None is SQL NULL / undefined, Some(x) holds x.
None == {}
Some(x) == {x}
The(o) == CHOOSE x \in o : TRUE

\* Promise settlement, as Promise.allSettled reports it
Fulfilled(v) == [status |-> "fulfilled", value |-> Some(v), reason |-> NULL]
Rejected(m) == [status |-> "rejected", value |-> None, reason |-> m]
Pending == [status |-> "pending", value |-> None, reason |-> NULL]

\* ------------------------------------------------------------------ Init
Init ==
  /\ batch = None
  /\ prList = << >>
  /\ concurrencyLimit = 2
  /\ bpc = "none"
  /\ i = 0
  /\ results = << >>
  /\ elapsed = 0
  /\ timer = 0
  /\ ipc = << >>
  /\ settled = << >>
  /\ calls = << >>
  /\ pr_reports \in [Refs -> {NoRow, OldRow}]
  /\ pull_requests = pr_reports
  /\ waves = 0
  /\ polled = None
  /\ pr_list = None
  /\ dbUp = TRUE
  /\ response = None
  /\ githubData = None
  /\ dpc = "none"
  /\ commit_diffs = << >>
  /\ review_driven_changes = << >>
  /\ runs = << >>
  /\ reviewRange = None

\* ------------------------------------------------- DatabaseService rows
\* INSERT INTO batch_analyses (...) VALUES (token, pr_list, 'pending', total, 0)
createBatch(b) ==
  [pr_list |-> b.pr_list, status |-> "pending", total_count |-> b.total_count,
   completed_count |-> 0, results |-> None, completed_at |-> None,
   error_message |-> NULL]

\* UPDATE batch_analyses SET status = 'processing'
startBatchProcessing(row) == [row EXCEPT !.status = "processing"]

\* Mutant: the count is written without the result list
updateBatchProgressCountOnly(row, completedCount, res) ==
  [row EXCEPT !.completed_count = completedCount]

\* Mutant: the count is added to the stored count instead of replacing it
updateBatchProgressAdd(row, completedCount, res) ==
  [row EXCEPT !.completed_count = @ + completedCount, !.results = Some(res)]

\* UPDATE batch_analyses SET completed_count = ..., results = ...
updateBatchProgress(row, completedCount, res) ==
  [row EXCEPT !.completed_count = completedCount, !.results = Some(res)]

\* UPDATE batch_analyses SET status = 'completed', completed_at = NOW(), results = ...
completeBatch(row, res) ==
  [row EXCEPT !.status = "completed", !.completed_at = Some(elapsed),
              !.results = Some(res)]

\* Mutant: the failure overwrites what the waves flushed
failBatchClearing(row, errorMessage) ==
  [row EXCEPT !.status = "failed", !.error_message = errorMessage,
              !.completed_at = Some(elapsed), !.results = None,
              !.completed_count = 0]

\* Mutant: the reason is stored but the status is left as it was
failBatchKeepStatus(row, errorMessage) ==
  [row EXCEPT !.error_message = errorMessage, !.completed_at = Some(elapsed)]

\* UPDATE batch_analyses SET status = 'failed', error_message = ..., completed_at = NOW()
failBatch(row, errorMessage) ==
  [row EXCEPT !.status = "failed", !.error_message = errorMessage,
              !.completed_at = Some(elapsed)]

\* Mutant: the percentage is truncated instead of rounded
PollResponseTruncating(row) ==
  [status |-> row.status,
   total_prs |-> row.total_count,
   completed_prs |-> row.completed_count,
   progress_percentage |->
     IF row.total_count > 0
       THEN (100 * row.completed_count) \div row.total_count
       ELSE 0,
   results |-> IF row.results = None THEN << >> ELSE The(row.results),
   error_message |-> row.error_message]

\* The response of GET /batch/:batchId for a stored row
PollResponse(row) ==
  [status |-> row.status,
   total_prs |-> row.total_count,
   completed_prs |-> row.completed_count,
   progress_percentage |->
     IF row.total_count > 0
       THEN (200 * row.completed_count + row.total_count) \div (2 * row.total_count)
       ELSE 0,
   results |-> IF row.results = None THEN << >> ELSE The(row.results),
   error_message |-> row.error_message]

\* --------------------------------------------------------- POST /batch
\* The route builds the row, awaits createBatch and calls processBatch, which
\* runs up to its first await (startBatchProcessing).
CreateBatch(parsedPRs, c) ==
  /\ bpc = "none"
  /\ batch' = Some(createBatch([pr_list |-> parsedPRs, total_count |-> Len(parsedPRs)]))
  /\ prList' = parsedPRs
  /\ concurrencyLimit' = c
  /\ ipc' = [k \in 1..Len(parsedPRs) |-> "idle"]
  /\ settled' = [k \in 1..Len(parsedPRs) |-> Pending]
  /\ calls' = [k \in 1..Len(parsedPRs) |-> {}]
  /\ bpc' = "startBatchProcessing"
  /\ UNCHANGED << i, results, elapsed, timer, pull_requests, pr_reports,
                  waves, polled >>

\* ------------------------------------------------------- processBatch
\* lines 32-35: mark the row processing, results = [], batchStartTime = Date.now()
StartProcessing ==
  /\ bpc = "startBatchProcessing"
  /\ batch' = Some(startBatchProcessing(The(batch)))
  /\ results' = << >>
  /\ elapsed' = 0
  /\ i' = 0
  /\ bpc' = "loop"
  /\ UNCHANGED << prList, concurrencyLimit, timer, ipc, settled, calls,
                  pull_requests, pr_reports, waves, polled, otherVars >>

\* Date.now() - batchStartTime > this.batchTimeoutMs
DeadlineExceeded == elapsed > BatchTimeoutMs

\* Mutant: the wave is started without the deadline check of lines 40-42
StartWaveUnchecked ==
  /\ bpc = "loop"
  /\ i < N
  /\ ipc' = [k \in Items |-> IF k \in Chunk THEN "getPullRequest" ELSE ipc[k]]
  /\ timer' = PrTimeoutMs
  /\ waves' = waves + 1
  /\ bpc' = "allSettled"
  /\ UNCHANGED << batch, prList, concurrencyLimit, i, results, elapsed,
                  settled, calls, pull_requests, pr_reports, polled, otherVars >>

\* lines 38-47: the deadline check passes, the chunk is sliced and every item
\* of it is started (timer set, processSinglePR run up to its first await).
StartWave ==
  /\ bpc = "loop"
  /\ i < N
  /\ ~DeadlineExceeded
  /\ ipc' = [k \in Items |-> IF k \in Chunk THEN "getPullRequest" ELSE ipc[k]]
  /\ timer' = PrTimeoutMs
  /\ waves' = waves + 1
  /\ bpc' = "allSettled"
  /\ UNCHANGED << batch, prList, concurrencyLimit, i, results, elapsed,
                  settled, calls, pull_requests, pr_reports, polled, otherVars >>

\* Mutant: the rejection's text is read from a property an Error does not have
OutcomeUnknown(k) ==
  IF settled[k].status = "fulfilled"
    THEN The(settled[k].value)
    ELSE FailureResult(prList[k], RejectionMessage(""))

\* lines 51-65: the entry pushed for item k of the chunk
Outcome(k) ==
  IF settled[k].status = "fulfilled"
    THEN The(settled[k].value)
    ELSE FailureResult(prList[k], RejectionMessage(settled[k].reason))

\* Mutant: the fulfilled items of the chunk are pushed before the rejected ones
PushedFulfilledFirst ==
  LET chunk == [j \in 1..Cardinality(Chunk) |-> i + j]
      fulfilled == SelectSeq(chunk, LAMBDA k : settled[k].status = "fulfilled")
      rejected == SelectSeq(chunk, LAMBDA k : settled[k].status # "fulfilled")
  IN results \o [j \in DOMAIN fulfilled |-> Outcome(fulfilled[j])]
             \o [j \in DOMAIN rejected |-> Outcome(rejected[j])]

\* Mutant: each wave starts its result list afresh
PushedChunkOnly == [j \in 1..Cardinality(Chunk) |-> Outcome(i + j)]

\* results after the pushes of lines 51-65
Pushed == results \o [j \in 1..Cardinality(Chunk) |-> Outcome(i + j)]

\* Mutant: Promise.all in place of Promise.allSettled, so that a rejected item
\* throws into the catch of processBatch
CollectWaveFailFast ==
  /\ bpc = "allSettled"
  /\ \A k \in Chunk : settled[k].status # "pending"
  /\ IF \E k \in Chunk : settled[k].status = "rejected"
       THEN /\ batch' = Some(failBatch(The(batch),
                    settled[CHOOSE k \in Chunk : settled[k].status = "rejected"].reason))
            /\ bpc' = "done"
            /\ UNCHANGED << results, i >>
       ELSE /\ results' = Pushed
            /\ batch' = Some(updateBatchProgress(The(batch), Len(results'), results'))
            /\ i' = i + concurrencyLimit
            /\ bpc' = "loop"
  /\ UNCHANGED << prList, concurrencyLimit, elapsed, timer, ipc, settled, calls,
                  pull_requests, pr_reports, waves, polled, otherVars >>

\* Mutant: the deadline is checked again when Promise.allSettled returns, and
\* a wave that outran it is dropped
CollectWaveChecked ==
  /\ bpc = "allSettled"
  /\ \A k \in Chunk : settled[k].status # "pending"
  /\ IF DeadlineExceeded
       THEN /\ batch' = Some(failBatch(The(batch), "Batch processing timeout exceeded"))
            /\ bpc' = "done"
            /\ UNCHANGED << results, i >>
       ELSE /\ results' = Pushed
            /\ batch' = Some(updateBatchProgress(The(batch), Len(results'), results'))
            /\ i' = i + concurrencyLimit
            /\ bpc' = "loop"
  /\ UNCHANGED << prList, concurrencyLimit, elapsed, timer, ipc, settled, calls,
                  pull_requests, pr_reports, waves, polled, otherVars >>

\* Mutant: the outcomes are pushed but updateBatchProgress is not called
CollectWaveUnflushed ==
  /\ bpc = "allSettled"
  /\ \A k \in Chunk : settled[k].status # "pending"
  /\ results' = Pushed
  /\ i' = i + concurrencyLimit
  /\ bpc' = "loop"
  /\ UNCHANGED << batch, prList, concurrencyLimit, elapsed, timer, ipc,
                  settled, calls, pull_requests, pr_reports, waves, polled, otherVars >>

\* lines 49-69: Promise.allSettled returns, the outcomes are pushed in chunk
\* order, the progress is written and the loop index advances.
CollectWave ==
  /\ bpc = "allSettled"
  /\ \A k \in Chunk : settled[k].status # "pending"
  /\ results' = Pushed
  /\ batch' = Some(updateBatchProgress(The(batch), Len(results'), results'))
  /\ i' = i + concurrencyLimit
  /\ bpc' = "loop"
  /\ UNCHANGED << prList, concurrencyLimit, elapsed, timer, ipc,
                  settled, calls, pull_requests, pr_reports, waves, polled, otherVars >>

\* Mutant: the deadline is tested once more when the loop is over
CompleteBatchChecked ==
  /\ bpc = "loop"
  /\ ~(i < N)
  /\ batch' = IF DeadlineExceeded
                THEN Some(failBatch(The(batch), "Batch processing timeout exceeded"))
                ELSE Some(completeBatch(The(batch), results))
  /\ bpc' = "done"
  /\ UNCHANGED << prList, concurrencyLimit, i, results, elapsed, timer, ipc, settled,
                  calls, pull_requests, pr_reports, waves, polled, otherVars >>

\* line 72: the loop is over
CompleteBatch ==
  /\ bpc = "loop"
  /\ ~(i < N)
  /\ batch' = Some(completeBatch(The(batch), results))
  /\ bpc' = "done"
  /\ UNCHANGED << prList, concurrencyLimit, i, results, elapsed, timer, ipc, settled, calls, pull_requests, pr_reports, waves,
                  polled, otherVars >>

\* lines 40-42 and 73-76: the deadline check throws, the catch marks the row failed
FailBatch ==
  /\ bpc = "loop"
  /\ i < N
  /\ DeadlineExceeded
  /\ batch' = Some(failBatch(The(batch), "Batch processing timeout exceeded"))
  /\ bpc' = "done"
  /\ UNCHANGED << prList, concurrencyLimit, i, results, elapsed, timer, ipc, settled, calls, pull_requests, pr_reports, waves,
                  polled, otherVars >>

\* ---------------------------------- processSinglePR / ...WithTimeout
\* The awaits of processSinglePR, in program order
Awaits ==
  << "getPullRequest", "getReport", "fetchPRData", "savePullRequest",
     "saveEntities", "generatePRReport", "saveReport", "readBack" >>

AwaitSet == { Awaits[n] : n \in DOMAIN Awaits }

\* The collaborator call counted for an await: the GitHub fetch, the report
\* generation, a persistence write, or a persistence read
CallOf(step) ==
  CASE step = "fetchPRData" -> {"fetch"}
    [] step = "generatePRReport" -> {"generate"}
    [] step \in {"savePullRequest", "saveEntities", "saveReport"} -> {"write"}
    [] OTHER -> {}

\* lines 91-94 / 115, 224, 233: processSinglePR resolves with v from the
\* return statement `at`; the wrapper clears the timer and resolves, which has
\* no effect once the timer has rejected.
Returns == {"returnedCached", "returnedFresh", "returnedFailure"}

Return(k, v, at) ==
  /\ ipc' = [ipc EXCEPT ![k] = at]
  /\ settled' = [settled EXCEPT ![k] =
                   IF settled[k].status = "pending" THEN Fulfilled(v) ELSE @]

\* the call awaited at `step` is made and returns; the item awaits `next`
Advance(k, step, next) ==
  /\ ipc[k] = step
  /\ calls' = [calls EXCEPT ![k] = @ \cup CallOf(step)]
  /\ ipc' = [ipc EXCEPT ![k] = next]
  /\ UNCHANGED settled

PipelineFrame ==
  UNCHANGED << batch, prList, concurrencyLimit, bpc, i, results, elapsed, timer,
               waves, polled, otherVars >>

\* Mutant: a stored pull request alone answers the item
GetPullRequestHit(k) ==
  /\ ipc[k] = "getPullRequest"
  /\ IF pull_requests[prList[k]] # NoRow
       THEN Return(k, SuccessResult(prList[k]), "returnedCached")
       ELSE ipc' = [ipc EXCEPT ![k] = "fetchPRData"] /\ UNCHANGED settled
  /\ UNCHANGED << calls, pull_requests, pr_reports >>
  /\ PipelineFrame

\* line 111
GetPullRequest(k) ==
  /\ Advance(k, "getPullRequest",
             IF pull_requests[prList[k]] # NoRow THEN "getReport" ELSE "fetchPRData")
  /\ UNCHANGED << pull_requests, pr_reports >>
  /\ PipelineFrame

\* Mutant: the pull request is fetched again before the stored report is returned
GetReportRefresh(k) ==
  /\ ipc[k] = "getReport"
  /\ IF pr_reports[prList[k]] # NoRow
       THEN /\ Return(k, SuccessResult(prList[k]), "returnedCached")
            /\ calls' = [calls EXCEPT ![k] = @ \cup {"fetch"}]
       ELSE /\ ipc' = [ipc EXCEPT ![k] = "fetchPRData"]
            /\ UNCHANGED << settled, calls >>
  /\ UNCHANGED << pull_requests, pr_reports >>
  /\ PipelineFrame

\* lines 113-123: a stored report is returned at once
GetReport(k) ==
  /\ ipc[k] = "getReport"
  /\ IF pr_reports[prList[k]] # NoRow
       THEN Return(k, SuccessResult(prList[k]), "returnedCached")
       ELSE ipc' = [ipc EXCEPT ![k] = "fetchPRData"] /\ UNCHANGED settled
  /\ UNCHANGED << calls, pull_requests, pr_reports >>
  /\ PipelineFrame

\* line 127
FetchPRData(k) ==
  /\ Advance(k, "fetchPRData", "savePullRequest")
  /\ UNCHANGED << pull_requests, pr_reports >>
  /\ PipelineFrame

\* lines 130-131: INSERT ... ON CONFLICT (org, repo, pr_number) DO UPDATE
SavePullRequest(k) ==
  /\ Advance(k, "savePullRequest", "saveEntities")
  /\ pull_requests' = [pull_requests EXCEPT ![prList[k]] = Writer(k)]
  /\ UNCHANGED pr_reports
  /\ PipelineFrame

\* lines 133-199: comments and reviews and, when the PR has commits, the
\* commits, the last commit's files, the commit diff and the review-driven
\* changes are saved (tables no step of this model reads)
SaveEntities(k) ==
  /\ Advance(k, "saveEntities", "generatePRReport")
  /\ UNCHANGED << pull_requests, pr_reports >>
  /\ PipelineFrame

\* lines 203-212
GeneratePRReport(k) ==
  /\ Advance(k, "generatePRReport", "saveReport")
  /\ UNCHANGED << pull_requests, pr_reports >>
  /\ PipelineFrame

\* Mutant: INSERT ... ON CONFLICT (pr_id) DO NOTHING
SaveReportFirstWins(k) ==
  /\ Advance(k, "saveReport", "readBack")
  /\ pr_reports' = [pr_reports EXCEPT ![prList[k]] =
                      IF @ = NoRow THEN Writer(k) ELSE @]
  /\ UNCHANGED pull_requests
  /\ PipelineFrame

\* lines 214-218: INSERT ... ON CONFLICT (pr_id) DO UPDATE
SaveReport(k) ==
  /\ Advance(k, "saveReport", "readBack")
  /\ pr_reports' = [pr_reports EXCEPT ![prList[k]] = Writer(k)]
  /\ UNCHANGED pull_requests
  /\ PipelineFrame

\* lines 221-231
ReadBack(k) ==
  /\ ipc[k] = "readBack"
  /\ Return(k, SuccessResult(prList[k]), "returnedFresh")
  /\ UNCHANGED << calls, pull_requests, pr_reports >>
  /\ PipelineFrame

\* Mutant: no catch around the pipeline, the Error rejects the item's promise
RaiseEscapes(k, m) ==
  /\ ipc[k] \in AwaitSet
  /\ calls' = [calls EXCEPT ![k] = @ \cup CallOf(ipc[k])]
  /\ ipc' = [ipc EXCEPT ![k] = "returnedFailure"]
  /\ settled' = [settled EXCEPT ![k] =
                   IF settled[k].status = "pending" THEN Rejected(m) ELSE @]
  /\ UNCHANGED << pull_requests, pr_reports >>
  /\ PipelineFrame

\* lines 232-240: the call awaited at ipc[k] is made and raises an Error with
\* message m, which the catch turns into the item's result
Raise(k, m) ==
  /\ ipc[k] \in AwaitSet
  /\ calls' = [calls EXCEPT ![k] = @ \cup CallOf(ipc[k])]
  /\ Return(k, FailureResult(prList[k], PipelineErrorMessage(m)), "returnedFailure")
  /\ UNCHANGED << pull_requests, pr_reports >>
  /\ PipelineFrame

\* Mutant: the timer's callback runs but rejects nothing
TimerFireNoReject(k) ==
  /\ ipc[k] # "idle"
  /\ settled[k].status = "pending"
  /\ timer = 0
  /\ UNCHANGED vars

\* lines 85-88: the timer of a started, unsettled item has run down and fires
TimerFire(k) ==
  /\ ipc[k] # "idle"
  /\ settled[k].status = "pending"
  /\ timer = 0
  /\ settled' = [settled EXCEPT ![k] = Rejected(TimeoutMessage(prList[k]))]
  /\ UNCHANGED << batch, prList, concurrencyLimit, bpc, i, results, elapsed, timer,
                  ipc, calls, pull_requests, pr_reports, waves, polled, otherVars >>

\* ------------------------------------------------------------- time
\* Time passes while processBatch runs.  It is advanced to the next instant
\* at which a comparison of the code changes: by prTimeoutMs while a timer
\* is set and has not run down, or past the batch deadline while that is not
\* yet exceeded.  elapsed is kept up to the first value past the deadline.
Tick(d) ==
  /\ bpc \in {"loop", "allSettled"}
  /\ \/ /\ d = PrTimeoutMs
        /\ timer > 0
        /\ \E k \in Items : ipc[k] # "idle" /\ settled[k].status = "pending"
     \/ /\ d = BatchTimeoutMs + 1
        /\ ~DeadlineExceeded
  /\ elapsed' = Min(elapsed + d, BatchTimeoutMs + 1)
  /\ timer' = IF timer > d THEN timer - d ELSE 0
  /\ UNCHANGED << batch, prList, concurrencyLimit, bpc, i, results, ipc, settled,
                  calls, pull_requests, pr_reports, waves, polled, otherVars >>

\* ------------------------------------------------ GET /batch/:batchId
Poll ==
  /\ batch # None
  /\ polled' = Some(PollResponse(The(batch)))
  /\ UNCHANGED << batch, prList, concurrencyLimit, bpc, i, results, elapsed, timer,
                  ipc, settled, calls, pull_requests, pr_reports, waves, otherVars >>


\* ====================================================== POST /batch route
\* A string is written as the sequence of its pieces: "/", "#", " ", a
\* digit, or a run of other characters ("github.com", "pull", "https:", "o");
\* "github.com" and "pull" always stand as pieces of their own.
IsDigit(c) == c \in {"0", "1", "2", "3", "4", "5", "6", "7", "8", "9"}

IsSpace(c) == c = " "

\* a JSON string of the request body / a JSON value that is not a string
Str(t) == [kind |-> "string", text |-> t]
NotAString == [kind |-> "number", text |-> << >>]

RECURSIVE Concat(_)
Concat(t) == IF t = << >> THEN "" ELSE Head(t) \o Concat(Tail(t))

RECURSIVE TrimLeft(_)
TrimLeft(t) == IF t # << >> /\ IsSpace(Head(t)) THEN TrimLeft(Tail(t)) ELSE t

RECURSIVE TrimRight(_)
TrimRight(t) ==
  IF t # << >> /\ IsSpace(t[Len(t)]) THEN TrimRight(SubSeq(t, 1, Len(t) - 1)) ELSE t

\* String.prototype.trim
trim(t) == TrimRight(TrimLeft(t))

DigitValue(c) ==
  CASE c = "0" -> 0 [] c = "1" -> 1 [] c = "2" -> 2 [] c = "3" -> 3 [] c = "4" -> 4
    [] c = "5" -> 5 [] c = "6" -> 6 [] c = "7" -> 7 [] c = "8" -> 8 [] c = "9" -> 9

\* parseInt of a run of digits
RECURSIVE parseInt(_)
parseInt(d) ==
  IF d = << >> THEN 0
  ELSE 10 * parseInt(SubSeq(d, 1, Len(d) - 1)) + DigitValue(d[Len(d)])

\* membership in the character classes [^\/], [^#] and \d
InClass(c, cls) ==
  CASE cls = "[^/]" -> c # "/"
    [] cls = "[^#]" -> c # "#"
    [] cls = "\\d" -> IsDigit(c)

\* the position after the longest run of cls characters that starts at from
RECURSIVE RunEnd(_, _, _)
RunEnd(t, from, cls) ==
  IF from <= Len(t) /\ InClass(t[from], cls) THEN RunEnd(t, from + 1, cls) ELSE from

\* the literal lit stands at position at
Lit(t, at, lit) ==
  at + Len(lit) - 1 <= Len(t) /\ SubSeq(t, at, at + Len(lit) - 1) = lit

Captured(t, org, repo, num) ==
  [org |-> Concat(SubSeq(t, org[1], org[2])),
   repo |-> Concat(SubSeq(t, repo[1], repo[2])),
   pr_number |-> parseInt(SubSeq(t, num[1], num[2]))]

\* /github\.com\/([^\/]+)\/([^\/]+)\/pull\/(\d+)/ tried at position p
urlMatch(t, p) ==
  LET a == p + 2
      q == RunEnd(t, a, "[^/]")
      r == RunEnd(t, q + 1, "[^/]")
      d == r + 3
      e == RunEnd(t, d, "\\d")
  IN IF /\ Lit(t, p, << "github.com", "/" >>)
        /\ q > a /\ Lit(t, q, << "/" >>)
        /\ r > q + 1 /\ Lit(t, r, << "/", "pull", "/" >>)
        /\ e > d
       THEN Some(Captured(t, << a, q - 1 >>, << q + 1, r - 1 >>, << d, e - 1 >>))
       ELSE None

\* /github\.com\/([^\/]+)\/([^\/]+)\/(\d+)$/ tried at position p
urlNoPullMatch(t, p) ==
  LET a == p + 2
      q == RunEnd(t, a, "[^/]")
      r == RunEnd(t, q + 1, "[^/]")
      d == r + 1
      e == RunEnd(t, d, "\\d")
  IN IF /\ Lit(t, p, << "github.com", "/" >>)
        /\ q > a /\ Lit(t, q, << "/" >>)
        /\ r > q + 1 /\ Lit(t, r, << "/" >>)
        /\ e > d /\ e = Len(t) + 1
       THEN Some(Captured(t, << a, q - 1 >>, << q + 1, r - 1 >>, << d, e - 1 >>))
       ELSE None

\* /github\.com\/([^\/]+)\/([^#]+)#(\d+)/ tried at position p
mixedMatch(t, p) ==
  LET a == p + 2
      q == RunEnd(t, a, "[^/]")
      h == RunEnd(t, q + 1, "[^#]")
      d == h + 1
      e == RunEnd(t, d, "\\d")
  IN IF /\ Lit(t, p, << "github.com", "/" >>)
        /\ q > a /\ Lit(t, q, << "/" >>)
        /\ h > q + 1 /\ Lit(t, h, << "#" >>)
        /\ e > d
       THEN Some(Captured(t, << a, q - 1 >>, << q + 1, h - 1 >>, << d, e - 1 >>))
       ELSE None

\* /^([^\/]+)\/([^#]+)#(\d+)$/
shortMatch(t, p) ==
  LET q == RunEnd(t, 1, "[^/]")
      h == RunEnd(t, q + 1, "[^#]")
      d == h + 1
      e == RunEnd(t, d, "\\d")
  IN IF /\ p = 1
        /\ q > 1 /\ Lit(t, q, << "/" >>)
        /\ h > q + 1 /\ Lit(t, h, << "#" >>)
        /\ e > d /\ e = Len(t) + 1
       THEN Some(Captured(t, << 1, q - 1 >>, << q + 1, h - 1 >>, << d, e - 1 >>))
       ELSE None

\* String.prototype.match: the leftmost position at which the pattern matches
Match(t, Pattern(_, _)) ==
  LET at == { p \in 1..Len(t) : Pattern(t, p) # None }
  IN IF at = {} THEN None
     ELSE Pattern(t, CHOOSE p \in at : \A p2 \in at : p <= p2)

\* parsePRInput of a string: Some({org, repo, pr_number}) or None (null)
parsePRInput(input) ==
  LET t == trim(input)
  IN IF Match(t, urlMatch) # None THEN Match(t, urlMatch)
     ELSE IF Match(t, urlNoPullMatch) # None THEN Match(t, urlNoPullMatch)
     ELSE IF Match(t, mixedMatch) # None THEN Match(t, mixedMatch)
     ELSE Match(t, shortMatch)

\* `Line ${i + 1}: Invalid format "${pr_list[i]}"`, n being i + 1
InvalidFormat(n, input) ==
  "Line " \o ToString(n) \o ": Invalid format \"" \o Concat(input) \o "\""

\* lines 307-317: parsedPRs after the first n entries of the list
RECURSIVE ParsedPRs(_, _)
ParsedPRs(list, n) ==
  IF n = 0 THEN << >>
  ELSE LET parsed == parsePRInput(list[n].text)
       IN IF parsed # None
            THEN Append(ParsedPRs(list, n - 1), The(parsed))
            ELSE ParsedPRs(list, n - 1)

\* Mutant: the loop is left at the first entry that does not parse
RECURSIVE ErrorsFirstOnly(_, _)
ErrorsFirstOnly(list, n) ==
  IF n = 0 THEN << >>
  ELSE LET before == ErrorsFirstOnly(list, n - 1)
       IN IF parsePRInput(list[n].text) = None /\ before = << >>
            THEN << InvalidFormat(n, list[n].text) >>
            ELSE before

\* lines 307-317: errors after the first n entries of the list
RECURSIVE Errors(_, _)
Errors(list, n) ==
  IF n = 0 THEN << >>
  ELSE IF parsePRInput(list[n].text) = None
         THEN Append(Errors(list, n - 1), InvalidFormat(n, list[n].text))
         ELSE Errors(list, n - 1)

\* a reply of the route: HTTP status, error text, details, and the fields of
\* the success body
Reply(code, error, details, token, total, invalid) ==
  [code |-> code, error |-> error, details |-> details, batch_token |-> token,
   total_prs |-> total, invalid_inputs |-> invalid]

ErrorReply(code, error, details) == Reply(code, error, details, FALSE, 0, None)

\* maximum 100 PRs per batch
MaxPRs == 100

\* Mutant: the route without the check of lines 299-304
TooManyNever(list) == FALSE

\* line 299: pr_list.length > 100
TooMany(list) == Len(list) > MaxPRs

\* the request ends without a batch: no row, no processBatch
NoBatch ==
  UNCHANGED << batch, prList, concurrencyLimit, bpc, i, results, elapsed, timer,
               ipc, settled, calls, pull_requests, pr_reports, waves, polled >>

\* lines 288-365.  input.trim() of an entry that is not a string throws a
\* TypeError and a failed INSERT throws, both into the catch of line 355.
PostBatch ==
  /\ bpc = "none"
  /\ response = None
  /\ IF pr_list = None \/ The(pr_list) = << >>
       THEN /\ response' = Some(ErrorReply(400,
                 "Invalid input: pr_list must be a non-empty array", << >>))
            /\ NoBatch
     ELSE IF TooMany(The(pr_list))
       THEN /\ response' = Some(ErrorReply(400,
                 "Too many PRs: maximum 100 PRs per batch", << >>))
            /\ NoBatch
     ELSE IF \E n \in DOMAIN The(pr_list) : The(pr_list)[n].kind # "string"
       THEN /\ response' = Some(ErrorReply(500, "Failed to create batch",
                 << "input.trim is not a function" >>))
            /\ NoBatch
     ELSE LET list == The(pr_list)
              parsedPRs == ParsedPRs(list, Len(list))
              errors == Errors(list, Len(list))
          IN IF Len(parsedPRs) = 0
               THEN /\ response' = Some(ErrorReply(400, "No valid PRs found", errors))
                    /\ NoBatch
             ELSE IF ~dbUp
               THEN /\ response' = Some(ErrorReply(500, "Failed to create batch",
                         << "insert failed" >>))
                    /\ NoBatch
             ELSE /\ CreateBatch(parsedPRs, 2)
                  /\ response' = Some(Reply(200, "", << >>, TRUE, Len(parsedPRs),
                         IF Len(errors) > 0 THEN Some(errors) ELSE None))
  /\ UNCHANGED << pr_list, dbUp, diffVars >>

\* ---- request bodies --------------------------------------------------
MaxEntries == 3

\* entries a request may carry
Entries ==
  { Str(<< "o", "/", "a", "#", "1" >>),
    Str(<< " ", "o", "/", "b", "#", "2", " " >>),
    Str(<< "https:", "/", "/", "github.com", "/", "o", "/", "a", "/", "pull", "/", "1", "2" >>),
    Str(<< "github.com", "/", "o", "/", "b", "/", "2" >>),
    Str(<< "github.com", "/", "o", "/", "a", "#", "1" >>),
    Str(<< "o", "/", "a" >>),
    Str(<< >>),
    Str(<< "o", "/", "a", "#", "1", "x" >>),
    NotAString }

Repeat(e, n) == [k \in 1..n |-> e]

\* no pr_list, a short list, or a list at or one past the cap
RouteBodies ==
  {None}
    \cup { Some(l) : l \in UNION { [1..n -> Entries] : n \in 0..MaxEntries } }
    \cup { Some(Repeat(e, n)) :
             e \in { Str(<< "o", "/", "a", "#", "1" >>), Str(<< "o", "/", "a" >>) },
             n \in {MaxPRs, MaxPRs + 1} }

InitRoute ==
  /\ batch = None
  /\ prList = << >>
  /\ concurrencyLimit = 2
  /\ bpc = "none"
  /\ i = 0
  /\ results = << >>
  /\ elapsed = 0
  /\ timer = 0
  /\ ipc = << >>
  /\ settled = << >>
  /\ calls = << >>
  /\ pr_reports = [r \in Refs |-> NoRow]
  /\ pull_requests = pr_reports
  /\ waves = 0
  /\ polled = None
  /\ pr_list \in RouteBodies
  /\ dbUp \in BOOLEAN
  /\ response = None
  /\ githubData = None
  /\ dpc = "none"
  /\ commit_diffs = << >>
  /\ review_driven_changes = << >>
  /\ runs = << >>
  /\ reviewRange = None

NextRoute == PostBatch

\* One POST /batch request, from its body to its reply
SpecRoute == InitRoute /\ [][NextRoute]_vars


\* ================================================== commit-diff steps
\* x || y on numbers
OrElse(x, y) == IF x # 0 THEN x ELSE y

\* A patch text, by the file version it shows and its length in characters
Patch(src, len) == [src |-> src, len |-> len]

\* no patch: undefined, null or ''
NoPatch == Patch("", 0)

\* patch.slice(0, n)
slice(patch, n) == [patch EXCEPT !.len = Min(patch.len, n)]

\* an entry of a file list of the GitHub API
File(filename, status, additions, deletions, changes, patch) ==
  [filename |-> filename, status |-> status, additions |-> additions,
   deletions |-> deletions, changes |-> changes, patch |-> patch]

RECURSIVE Sum(_)
Sum(numbers) == IF numbers = << >> THEN 0 ELSE Head(numbers) + Sum(Tail(numbers))

\* seq.reduce((sum, x) => sum + Field(x), 0)
SumOf(seq, Field(_)) == Sum([n \in DOMAIN seq |-> Field(seq[n])])

Additions(f) == f.additions
Deletions(f) == f.deletions
ChangedFiles(c) == c.changed_files

\* lines 120-172 of github.service.ts: one commit of transformCommits.  The
\* commit's own files and stats are used; without them getCommit is asked
\* (commit.details: what it returns, None when the request fails) and its
\* files are attached to the raw commit.
transformCommit(commit) ==
  LET hasFiles == commit.files # << >>
      a0 == IF hasFiles THEN SumOf(commit.files, Additions) ELSE 0
      d0 == IF hasFiles THEN SumOf(commit.files, Deletions) ELSE 0
      f0 == IF hasFiles THEN Len(commit.files) ELSE 0
      a1 == IF commit.stats # None THEN OrElse(The(commit.stats).additions, a0) ELSE a0
      d1 == IF commit.stats # None THEN OrElse(The(commit.stats).deletions, d0) ELSE d0
      f1 == IF commit.stats # None THEN OrElse(The(commit.stats).total, f0) ELSE f0
      asked == a1 = 0 /\ d1 = 0 /\ ~hasFiles
      got == asked /\ commit.details # None
      det == The(commit.details)
      raw == IF got /\ det.files # << >> THEN [commit EXCEPT !.files = det.files]
             ELSE commit
  IN [commit_sha |-> commit.sha,
      commit_message |-> commit.message,
      additions |-> IF got THEN OrElse(det.stats.additions, a1) ELSE a1,
      deletions |-> IF got THEN OrElse(det.stats.deletions, d1) ELSE d1,
      changed_files |-> IF got THEN OrElse(Len(det.files), f1) ELSE f1,
      raw_data |-> raw]

\* transformCommits
transformCommits(commitsData) ==
  [n \in DOMAIN commitsData |-> transformCommit(commitsData[n])]

\* A diff summary, as saveCommitDiff stores it
DiffSummary(first, last, additions, deletions, changedFiles, files) ==
  [first_commit_sha |-> first, last_commit_sha |-> last,
   total_additions |-> additions, total_deletions |-> deletions,
   total_changed_files |-> changedFiles, files_changed |-> files]

\* lines 179-197: buildCommitDiffSummary
buildCommitDiffSummary(comparison) ==
  DiffSummary(comparison.base_commit, comparison.head_commit,
    SumOf(comparison.files, Additions), SumOf(comparison.files, Deletions),
    Len(comparison.files),
    [n \in DOMAIN comparison.files |->
       [comparison.files[n] EXCEPT !.patch = slice(@, 500)]])

\* the entry of filename in a file map kept in insertion order (0: none)
KeyIndex(map, filename) ==
  IF \E n \in DOMAIN map : map[n].filename = filename
    THEN CHOOSE n \in DOMAIN map : map[n].filename = filename
    ELSE 0

\* lines 228-237: filesChanged[file.filename] = {...} for each file of prFiles
RECURSIVE FromPRFiles(_, _)
FromPRFiles(prFiles, n) ==
  IF n = 0 THEN << >>
  ELSE LET map == FromPRFiles(prFiles, n - 1)
           entry == [prFiles[n] EXCEPT !.patch = slice(@, 2000)]
           at == KeyIndex(map, entry.filename)
       IN IF at = 0 THEN Append(map, entry) ELSE [map EXCEPT ![at] = entry]

\* Mutant: the counts of a file are overwritten by each commit that lists it
MergeFileOverwriting(map, file) ==
  LET at == KeyIndex(map, file.filename)
      m == IF at = 0
             THEN Append(map, File(file.filename, file.status, 0, 0, 0, NoPatch))
             ELSE map
      k == KeyIndex(m, file.filename)
  IN [m EXCEPT ![k] =
        [@ EXCEPT !.additions = file.additions,
                  !.deletions = file.deletions,
                  !.changes = file.changes,
                  !.patch = IF file.patch.len > 0 /\ file.patch.len > @.len
                              THEN slice(file.patch, 2000) ELSE @]]

\* lines 250-265: one file of one commit is merged into the file map
MergeFile(map, file) ==
  LET at == KeyIndex(map, file.filename)
      m == IF at = 0
             THEN Append(map, File(file.filename, file.status, 0, 0, 0, NoPatch))
             ELSE map
      k == KeyIndex(m, file.filename)
  IN [m EXCEPT ![k] =
        [@ EXCEPT !.additions = @ + file.additions,
                  !.deletions = @ + file.deletions,
                  !.changes = @ + file.changes,
                  !.patch = IF file.patch.len > 0 /\ file.patch.len > @.len
                              THEN slice(file.patch, 2000) ELSE @]]

RECURSIVE MergeFiles(_, _)
MergeFiles(map, files) ==
  IF files = << >> THEN map
  ELSE MergeFiles(MergeFile(map, Head(files)), Tail(files))

\* lines 247-268: the files of every raw commit are merged, commit by commit
RECURSIVE FromCommits(_, _)
FromCommits(rawGithubCommits, n) ==
  IF n = 0 THEN << >>
  ELSE MergeFiles(FromCommits(rawGithubCommits, n - 1), rawGithubCommits[n].files)

\* lines 201-280: buildCommitDiffFromMetadata
buildCommitDiffFromMetadata(commits, rawGithubCommits, prFiles) ==
  IF commits = << >> THEN DiffSummary(NULL, NULL, 0, 0, 0, << >>)
  ELSE IF prFiles # << >>
    THEN LET filesChanged == FromPRFiles(prFiles, Len(prFiles))
         IN DiffSummary(commits[1].commit_sha, commits[Len(commits)].commit_sha,
              SumOf(filesChanged, Additions), SumOf(filesChanged, Deletions),
              Len(filesChanged), filesChanged)
    ELSE DiffSummary(commits[1].commit_sha, commits[Len(commits)].commit_sha,
           SumOf(commits, Additions), SumOf(commits, Deletions),
           SumOf(commits, ChangedFiles),
           FromCommits(rawGithubCommits, Len(rawGithubCommits)))


\* ---- lines 175-199: review-driven changes --------------------------
\* A commit message is written as the sequence of its words and separators.
toLowerCase(word) ==
  CASE word = "Merge" -> "merge"
    [] word = "MERGE" -> "merge"
    [] word = "Branch" -> "branch"
    [] word = "Pull" -> "pull"
    [] word = "Request" -> "request"
    [] word = "Revert" -> "revert"
    [] OTHER -> word

Lowered(message) == [n \in DOMAIN message |-> toLowerCase(message[n])]

startsWith(message, prefix) == Lit(message, 1, prefix)

includes(message, part) == \E at \in 1..Len(message) : Lit(message, at, part)

\* Mutant: only the start of the message is looked at
isMergePrefixOnly(message) == startsWith(Lowered(message), << "merge", " " >>)

\* lines 180-183: the message reads as a merge
isMerge(message) ==
  \/ startsWith(Lowered(message), << "merge", " " >>)
  \/ includes(Lowered(message), << "merge", " ", "branch" >>)
  \/ includes(Lowered(message), << "merge", " ", "pull", " ", "request" >>)

\* line 184: c.raw_data?.parents?.length || 1
parentCount(c) == OrElse(c.raw_data.parents, 1)

\* line 185: the commit passes the filter
NonMerge(c) == ~isMerge(c.commit_message) /\ parentCount(c) <= 1

RECURSIVE Filter(_, _)
Filter(seq, n) ==
  IF n = 0 THEN << >>
  ELSE IF NonMerge(seq[n]) THEN Append(Filter(seq, n - 1), seq[n])
       ELSE Filter(seq, n - 1)

\* lines 179-186: commits.filter(...)
nonMergeCommits(commits) == Filter(commits, Len(commits))

\* Mutant: an empty filter result is kept
effectiveCommitsStrict(commits) == nonMergeCommits(commits)

\* line 188: nonMergeCommits.length > 0 ? nonMergeCommits : commits
effectiveCommits(commits) ==
  IF Len(nonMergeCommits(commits)) > 0 THEN nonMergeCommits(commits) ELSE commits

\* GitHubService.buildReviewDrivenChanges: the change set between the first
\* and the last effective commit, or the empty one when there is no comparison
\* to make
buildReviewDrivenChanges(effective, comparison) ==
  LET first == IF effective = << >> THEN NULL ELSE effective[1].commit_sha
      last == IF effective = << >> THEN NULL ELSE effective[Len(effective)].commit_sha
      raws == [n \in DOMAIN effective |-> effective[n].raw_data]
      files == IF comparison # None /\ The(comparison).files # << >>
                 THEN The(comparison).files
                 ELSE FromCommits(raws, Len(raws))
  IN IF Len(effective) > 1
       THEN [has_review_changes |-> TRUE, first_commit_sha |-> first,
             last_commit_sha |-> last, total_commits |-> Len(effective),
             total_additions |-> SumOf(files, Additions),
             total_deletions |-> SumOf(files, Deletions),
             total_changed_files |-> Len(files), files_changed |-> files]
       ELSE [has_review_changes |-> FALSE, first_commit_sha |-> first,
             last_commit_sha |-> last, total_commits |-> Len(effective),
             total_additions |-> 0, total_deletions |-> 0,
             total_changed_files |-> 0, files_changed |-> << >>]

\* ---- tables commit_diffs and review_driven_changes -----------------
\* Mutant: a plain INSERT
InsertRow(table, prId, data) == Append(table, [pr_id |-> prId, data |-> data])

\* INSERT ... ON CONFLICT (pr_id) DO UPDATE SET ... = EXCLUDED. ...
Upsert(table, prId, data) ==
  IF \E n \in DOMAIN table : table[n].pr_id = prId
    THEN [n \in DOMAIN table |->
            IF table[n].pr_id = prId THEN [pr_id |-> prId, data |-> data]
            ELSE table[n]]
    ELSE Append(table, [pr_id |-> prId, data |-> data])

\* part_003 lines 647-661
saveCommitDiff(table, prId, diffData) == Upsert(table, prId, diffData)

\* part_003 lines 717-733
saveReviewDrivenChanges(table, prId, reviewData) == Upsert(table, prId, reviewData)

\* ---- the run -------------------------------------------------------
Data == The(githubData)

\* line 147
commits == transformCommits(Data.commits)

\* githubData.commits once transformCommits has attached the fetched files
rawCommits == [n \in DOMAIN commits |-> commits[n].raw_data]

\* the commits named in a request of fetchReviewDrivenChanges
Range(firstCommitSha, lastCommitSha) ==
  [firstCommitSha |-> firstCommitSha, lastCommitSha |-> lastCommitSha]

DiffFrame ==
  UNCHANGED << batch, prList, concurrencyLimit, bpc, i, results, elapsed, timer,
               ipc, settled, calls, pull_requests, pr_reports, waves, polled,
               routeVars, githubData, runs >>

\* line 146: no commits, nothing of lines 147-199 runs
SkipCommits ==
  /\ dpc = "saveCommits"
  /\ Data.commits = << >>
  /\ dpc' = "doneNoCommits"
  /\ UNCHANGED << commit_diffs, review_driven_changes >>
  /\ UNCHANGED reviewRange
  /\ DiffFrame

\* lines 147-161: the commits and the last commit's files are saved and the
\* base..head comparison is requested
SaveCommits ==
  /\ dpc = "saveCommits"
  /\ Data.commits # << >>
  /\ dpc' = "saveCommitDiff"
  /\ UNCHANGED << commit_diffs, review_driven_changes >>
  /\ UNCHANGED reviewRange
  /\ DiffFrame

\* Mutant: a fetched comparison is used even when it lists no file
fullRangeDiffAnyComparison ==
  IF Data.comparison # None
    THEN buildCommitDiffSummary(The(Data.comparison))
    ELSE buildCommitDiffFromMetadata(commits, rawCommits, Data.files)

\* lines 163-173: the comparison is used if it lists files
fullRangeDiff ==
  IF Data.comparison # None /\ The(Data.comparison).files # << >>
    THEN buildCommitDiffSummary(The(Data.comparison))
    ELSE buildCommitDiffFromMetadata(commits, rawCommits, Data.files)

SaveCommitDiff ==
  /\ dpc = "saveCommitDiff"
  /\ commit_diffs' = saveCommitDiff(commit_diffs, Data.pr_id, fullRangeDiff)
  /\ dpc' = "filtered"
  /\ UNCHANGED review_driven_changes
  /\ UNCHANGED reviewRange
  /\ DiffFrame

\* Mutant: the first and the last commit of the whole PR are compared
FetchReviewDrivenChangesWholeRange ==
  /\ dpc = "filtered"
  /\ Len(effectiveCommits(commits)) > 1
  /\ reviewRange' = Some(Range(commits[1].commit_sha, commits[Len(commits)].commit_sha))
  /\ dpc' = "fetchedReviewComparison"
  /\ UNCHANGED << commit_diffs, review_driven_changes >>
  /\ DiffFrame

\* lines 190-193: more than one effective commit, the comparison of the first
\* with the last is requested
FetchReviewDrivenChanges ==
  /\ dpc = "filtered"
  /\ Len(effectiveCommits(commits)) > 1
  /\ reviewRange' = Some(Range(effectiveCommits(commits)[1].commit_sha,
                               effectiveCommits(commits)[Len(effectiveCommits(commits))].commit_sha))
  /\ dpc' = "fetchedReviewComparison"
  /\ UNCHANGED << commit_diffs, review_driven_changes >>
  /\ DiffFrame

\* lines 194-195
SaveReviewDrivenChanges ==
  /\ dpc = "fetchedReviewComparison"
  /\ review_driven_changes' =
       saveReviewDrivenChanges(review_driven_changes, Data.pr_id,
         buildReviewDrivenChanges(effectiveCommits(commits), Data.reviewComparison))
  /\ dpc' = "doneReviewChanges"
  /\ UNCHANGED commit_diffs
  /\ UNCHANGED reviewRange
  /\ DiffFrame

\* lines 196-198: the change set is built without a comparison
SaveNoReviewChanges ==
  /\ dpc = "filtered"
  /\ ~(Len(effectiveCommits(commits)) > 1)
  /\ review_driven_changes' =
       saveReviewDrivenChanges(review_driven_changes, Data.pr_id,
         buildReviewDrivenChanges(effectiveCommits(commits), None))
  /\ dpc' = "doneNoReviewChanges"
  /\ UNCHANGED commit_diffs
  /\ UNCHANGED reviewRange
  /\ DiffFrame

\* ---- what GitHub may return ----------------------------------------
MaxCommits == 3

FileA1 == File("a", "added", 1, 0, 1, Patch("a@c1", 10))
FileA2 == File("a", "modified", 2, 1, 3, Patch("a@c2", 10))
FileB1 == File("b", "modified", 1, 1, 2, Patch("b@c2", 3000))
FileB2 == File("b", "removed", 0, 2, 2, Patch("b@c3", 2500))

Commit(sha, message, parents, files, stats, details) ==
  [sha |-> sha, message |-> message, parents |-> parents, files |-> files,
   stats |-> stats, details |-> details]

RawCommits ==
  { Commit("c1", << "add", " ", "a" >>, 0, << FileA1 >>, None, None),
    Commit("c2", << "fix", " ", "a" >>, 1, << FileA2, FileB1 >>, None, None),
    Commit("c3", << "Merge", " ", "branch", " ", "main" >>, 2, << FileB2 >>, None, None),
    Commit("c4", << "Revert", " ", "Merge", " ", "pull", " ", "request" >>, 1, << >>,
           None, Some([stats |-> [additions |-> 0, deletions |-> 2, total |-> 2],
                       files |-> << FileB2 >>])),
    Commit("c5", << "sync" >>, 2, << FileA1 >>,
           Some([additions |-> 1, deletions |-> 0, total |-> 1]), None),
    Commit("c6", << "MERGE", " ", "upstream" >>, 0, << FileA2 >>, None, None),
    Commit("c7", << "tidy", " ", "b" >>, 1, << FileB1 >>, None, None) }

\* commit lists of at most MaxCommits different commits
CommitLists ==
  { l \in UNION { [1..n -> RawCommits] : n \in 0..MaxCommits } :
      \A m, n \in DOMAIN l : m # n => l[m].sha # l[n].sha }

Comparison(base, head, files) ==
  [base_commit |-> base, head_commit |-> head, files |-> files]

GithubDatas ==
  [pr_id : {1},
   commits : CommitLists,
   files : { << >>, << FileA2, FileB1 >>, << FileA1, FileA2 >> },
   comparison : { None, Some(Comparison("base", NULL, << >>)),
                  Some(Comparison("base", NULL, << FileA2, FileB2 >>)) },
   reviewComparison : { None, Some(Comparison("c1", NULL, << FileA2 >>)) }]

InitDiff ==
  /\ batch = None
  /\ prList = << >>
  /\ concurrencyLimit = 2
  /\ bpc = "none"
  /\ i = 0
  /\ results = << >>
  /\ elapsed = 0
  /\ timer = 0
  /\ ipc = << >>
  /\ settled = << >>
  /\ calls = << >>
  /\ pr_reports = [r \in Refs |-> NoRow]
  /\ pull_requests = pr_reports
  /\ waves = 0
  /\ polled = None
  /\ pr_list = None
  /\ dbUp = TRUE
  /\ response = None
  /\ githubData \in { Some(d) : d \in GithubDatas }
  /\ dpc = "saveCommits"
  /\ commit_diffs = << >>
  /\ review_driven_changes = << >>
  /\ runs = << >>
  /\ reviewRange = None

NextDiff ==
  \/ SkipCommits
  \/ SaveCommits
  \/ SaveCommitDiff
  \/ FetchReviewDrivenChanges
  \/ SaveReviewDrivenChanges
  \/ SaveNoReviewChanges

\* The commit and diff steps of one pipeline run, for every fetched data
SpecDiff == InitDiff /\ [][NextDiff]_vars

\* ---- concurrent runs on the two tables ----------------------------
MaxRuns == 3

PrIds == {1, 2}

\* summaries a run may have built at lines 163-173
DiffDatas ==
  { buildCommitDiffSummary(Comparison("base", NULL, fs)) :
      fs \in { << FileA1 >>, << FileA2, FileB1 >> } }

\* change sets a run may have built at lines 190-198
ReviewDatas ==
  { buildReviewDrivenChanges(transformCommits(<< cs[1] >>), None) :
      cs \in { l \in CommitLists : Len(l) = 1 /\ l[1].sha = "c1" } }
  \cup
  { buildReviewDrivenChanges(transformCommits(cs),
                             Some(Comparison("c1", NULL, << FileA2 >>))) :
      cs \in { l \in CommitLists : Len(l) = 2 /\ l[1].sha = "c1" /\ l[2].sha = "c2" } }

Run(prId, diffData, reviewData, pos) ==
  [pr_id |-> prId, diffData |-> diffData, reviewData |-> reviewData, pos |-> pos]

StoreFrame ==
  UNCHANGED << batch, prList, concurrencyLimit, bpc, i, results, elapsed, timer,
               ipc, settled, calls, pull_requests, pr_reports, waves, polled,
               routeVars, githubData, dpc, reviewRange >>

\* lines 165 and 172 of batch.service.ts, in run n
RunSaveCommitDiff(n) ==
  /\ runs[n].pos = "saveCommitDiff"
  /\ commit_diffs' = saveCommitDiff(commit_diffs, runs[n].pr_id, runs[n].diffData)
  /\ runs' = [runs EXCEPT ![n].pos = "saveReviewDrivenChanges"]
  /\ UNCHANGED review_driven_changes
  /\ StoreFrame

\* lines 195 and 198 of batch.service.ts, in run n
RunSaveReviewDrivenChanges(n) ==
  /\ runs[n].pos = "saveReviewDrivenChanges"
  /\ review_driven_changes' =
       saveReviewDrivenChanges(review_driven_changes, runs[n].pr_id, runs[n].reviewData)
  /\ runs' = [runs EXCEPT ![n].pos = "done"]
  /\ UNCHANGED commit_diffs
  /\ StoreFrame

InitStore ==
  /\ batch = None
  /\ prList = << >>
  /\ concurrencyLimit = 2
  /\ bpc = "none"
  /\ i = 0
  /\ results = << >>
  /\ elapsed = 0
  /\ timer = 0
  /\ ipc = << >>
  /\ settled = << >>
  /\ calls = << >>
  /\ pr_reports = [r \in Refs |-> NoRow]
  /\ pull_requests = pr_reports
  /\ waves = 0
  /\ polled = None
  /\ pr_list = None
  /\ dbUp = TRUE
  /\ response = None
  /\ githubData = None
  /\ dpc = "none"
  /\ commit_diffs = << >>
  /\ review_driven_changes = << >>
  /\ reviewRange = None
  /\ runs \in [1..MaxRuns -> { Run(p, d, r, "saveCommitDiff") :
                                 p \in PrIds, d \in DiffDatas, r \in ReviewDatas }]

NextStore ==
  \E n \in DOMAIN runs :
    \/ RunSaveCommitDiff(n)
    \/ RunSaveReviewDrivenChanges(n)

\* Pipeline runs, for the same or different pull requests, whose saves to
\* commit_diffs and review_driven_changes interleave in any order
SpecStore == InitStore /\ [][NextStore]_vars

\* -------------------------------------------------------------- Next
Next ==
  \/ \E parsedPRs \in PrLists, c \in ConcurrencyLimits :
       CreateBatch(parsedPRs, c) /\ UNCHANGED otherVars
  \/ StartProcessing
  \/ StartWave
  \/ CollectWave
  \/ CompleteBatch
  \/ FailBatch
  \/ \E k \in Items : GetPullRequest(k)
  \/ \E k \in Items : GetReport(k)
  \/ \E k \in Items : FetchPRData(k)
  \/ \E k \in Items : SavePullRequest(k)
  \/ \E k \in Items : SaveEntities(k)
  \/ \E k \in Items : GeneratePRReport(k)
  \/ \E k \in Items : SaveReport(k)
  \/ \E k \in Items : ReadBack(k)
  \/ \E k \in Items, m \in RaiseMsgs : Raise(k, m)
  \/ \E k \in Items : TimerFire(k)
  \/ \E d \in {PrTimeoutMs, BatchTimeoutMs + 1} : Tick(d)

\* The engine without pollers
Spec == Init /\ [][Next]_vars

\* The engine with a poller of the batch token
NextPoll == Next \/ Poll

SpecPoll == Init /\ [][NextPoll]_vars

\* What the runtime guarantees: a continuation of processBatch whose awaited
\* Progress Store call or Promise.allSettled has settled is run, time passes
\* while a timer is set, and a timer that has run down fires.  Nothing is
\* assumed of the calls of processSinglePR: each may stay pending for ever.
Fairness ==
  /\ WF_vars(StartProcessing)
  /\ WF_vars(StartWave)
  /\ WF_vars(CollectWave)
  /\ WF_vars(CompleteBatch)
  /\ WF_vars(FailBatch)
  /\ WF_vars(Tick(PrTimeoutMs))
  /\ \A k \in 1..MaxItems : WF_vars(k \in Items /\ TimerFire(k))

\* The engine under these guarantees
SpecLive == Init /\ [][Next]_vars /\ Fairness

TypeOK ==
  /\ bpc \in {"none", "startBatchProcessing", "loop", "allSettled", "done"}
  /\ \A k \in Items : ipc[k] \in AwaitSet \cup Returns \cup {"idle"}

\* =================================================================
\* Properties
\* =================================================================
Row == The(batch)

\* the result list stored in the row ([] while the column is NULL)
Stored == IF Row.results = None THEN << >> ELSE The(Row.results)

Ceil(a, b) == (a + b - 1) \div b

TimedOut(k) == settled[k].status = "rejected"

\* ---- C1 -----------------------------------------------------------
\* C1: an item that fails or times out never keeps another item from
\* running: unless a pre-wave check finds the batch deadline exceeded the
\* batch ends completed, and a completed batch stores exactly N entries, the
\* k-th being the own outcome of item k, however many items failed.
C1_Isolation ==
  batch # None =>
    /\ (bpc = "done" /\ ~DeadlineExceeded) => Row.status = "completed"
    /\ Row.status = "completed" =>
         /\ Len(Stored) = N
         /\ \A k \in Items : ipc[k] # "idle" /\ Stored[k] = Outcome(k)

\* a completed batch in which the first item failed or timed out and the
\* second one, of the same wave or the next, succeeded
C1_Witness ==
  /\ batch # None
  /\ Row.status = "completed"
  /\ N = 2
  /\ ~Stored[1].success
  /\ Stored[2].success

\* ---- C2 -----------------------------------------------------------
C2_Final ==
  (batch # None /\ Row.status = "failed") =>
    /\ bpc = "done"
    /\ Row.error_message = "Batch processing timeout exceeded"
    /\ Len(Stored) = Min(waves * concurrencyLimit, N)
    /\ Len(Stored) < N
    /\ \A k \in 1..Len(Stored) : Stored[k] = Outcome(k)
    /\ \A k \in Items : k > Len(Stored) => ipc[k] = "idle"

C2_Step ==
  (bpc = "loop" /\ i < N /\ DeadlineExceeded) =>
    /\ waves' = waves
    /\ \A k \in Items : ipc[k] = "idle" => ipc'[k] = "idle"
    /\ bpc' # bpc => Row'.status = "failed"

\* C2: the deadline is checked before each wave; once it is found exceeded
\* no wave is started, the batch ends failed with the reason "Batch
\* processing timeout exceeded", the items not started stay unstarted and
\* have no entry, and the stored list is exactly the outcomes of the waves
\* that completed, fewer than N.
C2_Deadline == [] C2_Final /\ [][C2_Step]_vars

\* a batch failed by the deadline after its first wave was flushed
C2_Witness ==
  /\ batch # None
  /\ Row.status = "failed"
  /\ waves = 1
  /\ Len(Stored) = 1
  /\ ipc[2] = "idle"

\* ---- C3 -----------------------------------------------------------
\* C3: the items started so far are the first min(k*C, N) of the list, k
\* being the number of waves started; after the flush of wave k the row
\* holds completed_count = min(k*C, N); a completed batch ran ceil(N/C) waves.
C3_Waves ==
  batch # None =>
    /\ { k \in Items : ipc[k] # "idle" } = 1..Min(waves * concurrencyLimit, N)
    /\ bpc = "allSettled" =>
         /\ Chunk = ((waves - 1) * concurrencyLimit + 1)..Min(waves * concurrencyLimit, N)
         /\ Row.completed_count = Min((waves - 1) * concurrencyLimit, N)
    /\ bpc \in {"loop", "done"} =>
         Row.completed_count = Min(waves * concurrencyLimit, N)
    /\ waves <= Ceil(N, concurrencyLimit)
    /\ Row.status = "completed" => waves = Ceil(N, concurrencyLimit)

\* two waves of one item each have been flushed
C3_Witness ==
  /\ batch # None
  /\ bpc = "loop"
  /\ concurrencyLimit = 1
  /\ waves = 2
  /\ Row.completed_count = 2

\* ---- C4 -----------------------------------------------------------
\* C4: what a poll of the token returns never goes back: against the
\* response of any earlier poll the completed count has not decreased and
\* the result list is an extension of the earlier list.
C4_Step ==
  (polled # None /\ batch # None) =>
    /\ PollResponse(Row').completed_prs >= The(polled).completed_prs
    /\ IsPrefix(The(polled).results, PollResponse(Row').results)
    /\ PollResponse(Row').completed_prs >= PollResponse(Row).completed_prs
    /\ IsPrefix(PollResponse(Row).results, PollResponse(Row').results)

C4_PollMonotone == [][C4_Step]_vars

\* a poll has seen one result and the row has since grown to two
C4_Witness ==
  /\ polled # None
  /\ Len(The(polled).results) = 1
  /\ The(polled).completed_prs = 1
  /\ Row.completed_count = 2
  /\ Len(Stored) = 2

\* ---- C5 -----------------------------------------------------------
\* C5: an item that returned from the cache check made no call to the
\* GitHub fetch or the report generation and no persistence write, left the
\* stored rows of its ref alone, and, unless its timer had already fired,
\* settled as Success.
C5_CacheHit ==
  \A k \in Items :
    ipc[k] = "returnedCached" =>
      /\ calls[k] = {}
      /\ pull_requests[prList[k]] # Writer(k)
      /\ pr_reports[prList[k]] # Writer(k)
      /\ pr_reports[prList[k]] # NoRow
      /\ ~TimedOut(k) => settled[k] = Fulfilled(SuccessResult(prList[k]))

\* an item answered from a report that an earlier item of the batch stored
C5_Witness ==
  \E k \in Items :
    /\ ipc[k] = "returnedCached"
    /\ settled[k].status = "fulfilled"
    /\ pr_reports[prList[k]] \notin {NoRow, OldRow}

\* ---- C6 -----------------------------------------------------------
\* the items of ref r whose pipeline went past the cache check
Ran(r) ==
  { k \in Items : prList[k] = r /\ calls[k] \cap {"fetch", "generate"} # {} }

\* the occurrences of ref r met no raise and no timeout
Undisturbed(r) ==
  \A k \in Items :
    prList[k] = r => (ipc[k] # "returnedFailure" /\ ~TimedOut(k))

\* C6: for a ref that had no stored report before the batch and whose
\* occurrences met no raise and no timeout, the fetch and the report
\* generation run for at most one of its occurrences in the batch; every
\* other occurrence costs a cache read only.
C6_OncePerRef ==
  \A r \in Refs :
    (pr_reports[r] # OldRow /\ Undisturbed(r)) => Cardinality(Ran(r)) <= 1

\* ---- C7 -----------------------------------------------------------
\* C7: whatever call of processSinglePR raises, the item's promise is not
\* rejected by it: the item resolves with a Failure value naming its own ref
\* and the raised message; only the timer ever rejects an item.
C7_NeverRaises ==
  \A k \in Items :
    /\ TimedOut(k) => settled[k].reason = TimeoutMessage(prList[k])
    /\ (ipc[k] = "returnedFailure" /\ ~TimedOut(k)) =>
         /\ settled[k].status = "fulfilled"
         /\ \E m \in RaiseMsgs :
              settled[k] = Fulfilled(FailureResult(prList[k], PipelineErrorMessage(m)))

\* the report generation (or the report's save) of one item raised, and the
\* scheduler stored the Failure next to another item's Success
C7_Witness ==
  /\ batch # None
  /\ Row.status = "completed"
  /\ \E k \in Items :
       /\ ipc[k] = "returnedFailure"
       /\ "generate" \in calls[k]
       /\ Stored[k] = FailureResult(prList[k], "collaborator error")
       /\ \E j \in Items : Stored[j].success

\* ---- C8 -----------------------------------------------------------
\* C8 as stated: the recorded reason of a timed-out item is "timeout"
C8_ReasonIsTimeout ==
  \A k \in Items : TimedOut(k) => Outcome(k).error = "timeout"

\* C8, amended: an item whose timer fired before its pipeline returned is
\* recorded as a Failure whose reason is the message "Timeout processing
\* <org>/<repo>#<pr_number>"; the entry is pushed and flushed like any other
\* outcome, and the batch fails only by its own deadline.
C8_Timeout ==
  \A k \in Items :
    TimedOut(k) =>
      /\ Outcome(k) = FailureResult(prList[k], TimeoutMessage(prList[k]))
      /\ Outcome(k).error \in {"Timeout processing o/a#1", "Timeout processing o/b#2"}
      /\ k <= Len(results) => results[k] = Outcome(k) /\ Stored[k] = Outcome(k)
      /\ Row.status = "failed" => DeadlineExceeded

\* a completed batch holding a timeout entry next to a Success
C8_Witness ==
  /\ batch # None
  /\ Row.status = "completed"
  /\ \E k \in Items :
       /\ TimedOut(k)
       /\ Stored[k].error = "Timeout processing o/a#1"
       /\ \E j \in Items : Stored[j].success

\* ---- C9 -----------------------------------------------------------
C9_Final ==
  (batch # None /\ Row.status = "failed") =>
    /\ Stored = results
    /\ Row.completed_count = Len(results)

C9_Step ==
  (batch # None /\ batch' # None /\ Row'.status = "failed") =>
    /\ Row'.results = Row.results
    /\ Row'.completed_count = Row.completed_count
    /\ Row'.total_count = Row.total_count
    /\ Row'.pr_list = Row.pr_list

\* C9: marking the batch failed changes the status, the failure reason and
\* the completion time only; the results and the completed count flushed by
\* the completed waves stay as they were, so the failed row exposes every
\* result collected.
C9_FailKeepsResults == [] C9_Final /\ [][C9_Step]_vars

\* a failed batch that still shows the Success of its first wave
C9_Witness ==
  /\ batch # None
  /\ Row.status = "failed"
  /\ Row.completed_count = 1
  /\ Len(Stored) = 1
  /\ Stored[1].success

\* ---- C10 ----------------------------------------------------------
C10_Inv ==
  batch # None =>
    /\ Row.status \in {"pending", "processing", "completed", "failed"}
    /\ Row.status = "pending" <=> bpc = "startBatchProcessing"
    /\ Row.status = "processing" <=> bpc \in {"loop", "allSettled"}
    /\ Row.status \in {"completed", "failed"} <=> bpc = "done"
    /\ Row.error_message # NULL => Row.status = "failed"

C10_Step ==
  /\ (batch = None /\ batch' # None) => Row'.status = "pending"
  /\ batch # None =>
       /\ batch' # None
       /\ Row'.status # Row.status =>
            << Row.status, Row'.status >> \in
              { << "pending", "processing" >>, << "processing", "completed" >>,
                << "processing", "failed" >> }
       /\ Row.status \in {"completed", "failed"} => batch' = batch

Body == The(pr_list)

\* the positions of the entries parsePRInput accepts
Parseable ==
  { n \in DOMAIN Body : Body[n].kind = "string" /\ parsePRInput(Body[n].text) # None }

\* the place of entry n among the accepted entries
Rank(n) == Cardinality({ m \in Parseable : m <= n })

\* the rejected list of the reply: invalid_inputs, or the details of the 400
Reported ==
  IF The(response).code = 200
    THEN IF The(response).invalid_inputs = None THEN << >>
         ELSE The(The(response).invalid_inputs)
    ELSE The(response).details

\* the request got through the parse loop and was answered from its lists
LoopRan ==
  /\ response # None
  /\ The(response).code = 200 \/ The(response).error = "No valid PRs found"

\* C11: an entry that does not parse is never scheduled; when the request is
\* answered from the parse loop, the scheduled items are the parse results of
\* the accepted entries in input order, the rejected list names every other
\* entry once and no accepted entry, and accepted + rejected = input length.
C11_Partition ==
  /\ (response # None /\ pr_list # None) =>
       \A k \in DOMAIN prList :
         \E n \in Parseable : prList[k] = The(parsePRInput(Body[n].text))
  /\ LoopRan =>
       /\ Len(prList) = Cardinality(Parseable)
       /\ \A n \in Parseable : prList[Rank(n)] = The(parsePRInput(Body[n].text))
       /\ \A n \in DOMAIN Body \ Parseable :
            Cardinality({ j \in DOMAIN Reported :
                            Reported[j] = InvalidFormat(n, Body[n].text) }) = 1
       /\ \A n \in Parseable, j \in DOMAIN Reported :
            Reported[j] # InvalidFormat(n, Body[n].text)
       /\ Len(prList) + Len(Reported) = Len(Body)
       /\ The(response).code = 200 =>
            /\ The(response).total_prs = Len(prList)
            /\ Row.pr_list = prList

\* two accepted entries around a rejected one
C11_Witness ==
  /\ response # None
  /\ The(response).code = 200
  /\ Len(Body) = 3
  /\ prList = << [org |-> "o", repo |-> "b", pr_number |-> 2],
                 [org |-> "o", repo |-> "a", pr_number |-> 12] >>
  /\ Reported = << "Line 2: Invalid format \"o/a#1x\"" >>

\* ---- C12 ----------------------------------------------------------
\* the conditions under which the route creates a batch
Creatable ==
  /\ pr_list # None
  /\ Len(Body) >= 1
  /\ Len(Body) <= 100
  /\ Parseable # {}
  /\ dbUp

\* C12: a batch row exists, a token is returned and processBatch is started
\* only for a non-empty list of at most 100 entries with an entry that parses
\* and a createBatch that succeeds; otherwise there is no row, no token and no
\* processBatch.  A list of strings meeting the conditions does get its batch.
C12_CreatedOnlyIf ==
  /\ (batch # None \/ bpc # "none") =>
       /\ Creatable
       /\ response # None
       /\ The(response).batch_token
       /\ bpc = "startBatchProcessing"
       /\ Row.status = "pending"
  /\ (response # None /\ ~Creatable) =>
       /\ batch = None
       /\ ~The(response).batch_token
       /\ The(response).code # 200
       /\ bpc = "none"
  /\ (response # None /\ Creatable /\ \A n \in DOMAIN Body : Body[n].kind = "string") =>
       batch # None

\* a batch of exactly 100 entries
C12_Witness ==
  /\ batch # None
  /\ Len(Body) = 100
  /\ Row.total_count = 100
  /\ The(response).batch_token

\* ---- C13 ----------------------------------------------------------
\* p is Math.round(c / t * 100)
IsRounded(p, c, t) == 2 * p * t <= 200 * c + t /\ 200 * c + t < 2 * (p + 1) * t

\* a stored row of t items of which c are completed
RowWith(t, c) ==
  [createBatch([pr_list |-> << >>, total_count |-> t]) EXCEPT !.completed_count = c]

C13_Inv ==
  /\ batch # None => ENABLED Poll
  /\ batch = None =>
       \A t \in 0..MaxPRs : \A c \in 0..t :
         IF t = 0 THEN PollResponse(RowWith(t, c)).progress_percentage = 0
         ELSE IsRounded(PollResponse(RowWith(t, c)).progress_percentage, c, t)

C13_Step ==
  polled' # polled =>
    /\ batch' = batch
    /\ batch # None
    /\ The(polled').status = Row.status
    /\ The(polled').total_prs = Row.total_count
    /\ The(polled').completed_prs = Row.completed_count
    /\ The(polled').results = Stored
    /\ The(polled').error_message = Row.error_message
    /\ IsRounded(The(polled').progress_percentage, Row.completed_count, Row.total_count)

DiffSource ==
  IF Data.comparison # None /\ The(Data.comparison).files # << >> THEN "comparison"
  ELSE IF Data.files # << >> THEN "prFiles"
  ELSE "commits"

\* the totals of a diff summary are those of its file list
TotalsMatchFiles(d) ==
  /\ d.total_additions = SumOf(d.files_changed, Additions)
  /\ d.total_deletions = SumOf(d.files_changed, Deletions)
  /\ d.total_changed_files = Len(d.files_changed)

\* C14: whatever the source, a stored full-range diff has total additions
\* and deletions equal to the sums over its file list and a file count equal
\* to the number of entries of the list.
C14_TotalsMatchFiles ==
  \A n \in DOMAIN commit_diffs : TotalsMatchFiles(commit_diffs[n].data)

\* ---- C15 ----------------------------------------------------------
\* the orders in which the commits of the run can be merged
Orders ==
  LET positions == DOMAIN Data.commits
  IN { p \in [positions -> positions] :
         \A m, n \in positions : m # n => p[m] # p[n] }

\* the commit aggregation of buildCommitDiffFromMetadata run in order p
MergedIn(p) ==
  LET transformed == commits
      raw == [n \in DOMAIN transformed |-> transformed[n].raw_data]
  IN buildCommitDiffFromMetadata([n \in DOMAIN p |-> transformed[p[n]]],
                                 [n \in DOMAIN p |-> raw[p[n]]], << >>)

Totals(d) == << d.total_additions, d.total_deletions, d.total_changed_files >>

\* the file map with every field of its entries
FileMap(d) == { d.files_changed[n] : n \in DOMAIN d.files_changed }

\* the file map by filename, additions, deletions and changes
Counts(d) ==
  { [filename |-> d.files_changed[n].filename,
     additions |-> d.files_changed[n].additions,
     deletions |-> d.files_changed[n].deletions,
     changes |-> d.files_changed[n].changes] : n \in DOMAIN d.files_changed }

\* a diff built by the commit aggregation has been stored
Aggregated == dpc \notin {"saveCommits", "saveCommitDiff", "doneNoCommits"}
                /\ DiffSource = "commits"

\* C15 as stated: every order of the commits gives the stored totals and the
\* stored file map, status and patch excerpt included
C15_OrderIndependent ==
  Aggregated =>
    \A p \in Orders :
      /\ Totals(MergedIn(p)) = Totals(commit_diffs[1].data)
      /\ FileMap(MergedIn(p)) = FileMap(commit_diffs[1].data)

\* C15, amended: every order of the commits gives the stored totals and the
\* stored filename keys with, for each key, the stored additions, deletions
\* and changes (the status and the patch excerpt of a key may depend on the
\* order).
C15_CountsOrderIndependent ==
  Aggregated =>
    \A p \in Orders :
      LET merged == MergedIn(p)
      IN /\ Totals(merged) = Totals(commit_diffs[1].data)
         /\ Counts(merged) = Counts(commit_diffs[1].data)
         /\ Len(merged.files_changed) = Len(commit_diffs[1].data.files_changed)

\* three commits were merged, two of them listing file a with different
\* statuses
C15_Witness ==
  /\ Aggregated
  /\ Len(commits) = 3
  /\ \E e \in FileMap(commit_diffs[1].data) :
       e.filename = "a" /\ e.additions = 3 /\ e.status = "added"
  /\ \E p \in Orders : FileMap(MergedIn(p)) # FileMap(commit_diffs[1].data)

\* ---- C16 ----------------------------------------------------------
\* the run has requested the first-vs-last comparison
ReviewPath == dpc \in {"fetchedReviewComparison", "doneReviewChanges"}

\* the run has decided between the two paths
Decided == ReviewPath \/ dpc = "doneNoReviewChanges"

\* the stored change set is the empty one
NoChangesStored ==
  /\ Len(review_driven_changes) = 1
  /\ ~review_driven_changes[1].data.has_review_changes
  /\ review_driven_changes[1].data.total_additions = 0
  /\ review_driven_changes[1].data.total_deletions = 0
  /\ review_driven_changes[1].data.total_changed_files = 0
  /\ review_driven_changes[1].data.files_changed = << >>

\* C16 as stated: with zero or one non-merge commits left the run takes the
\* no-review-changes path
C16_FewEffectiveNoReview ==
  (githubData # None /\ Len(nonMergeCommits(commits)) <= 1) =>
    /\ ~ReviewPath
    /\ dpc = "doneNoReviewChanges" => NoChangesStored

\* the cases in which the code compares nothing: one non-merge commit, or
\* a single commit that is a merge
OneEffective ==
  \/ Len(nonMergeCommits(commits)) = 1
  \/ Len(nonMergeCommits(commits)) = 0 /\ Len(commits) = 1

\* C16, amended: the run takes the no-review-changes path (no first-vs-last
\* comparison requested, the empty change set stored) exactly when one
\* non-merge commit remains, or none remains and the PR has a single commit;
\* when two or more commits are all merge commits, all of them are taken as
\* effective and compared.
C16_OneEffectiveNoReview ==
  (githubData # None /\ Decided) =>
    /\ OneEffective <=> dpc = "doneNoReviewChanges"
    /\ OneEffective => NoChangesStored
    /\ (Len(nonMergeCommits(commits)) = 0 /\ Len(commits) > 1) =>
         /\ ReviewPath
         /\ effectiveCommits(commits) = commits

\* a merge commit and one real commit: the empty change set is stored
C16_Witness ==
  /\ dpc = "doneNoReviewChanges"
  /\ Len(commits) = 2
  /\ Len(nonMergeCommits(commits)) = 1
  /\ isMerge(commits[1].commit_message)
  /\ NoChangesStored

\* ---- C17 ----------------------------------------------------------
\* item k completes the call it awaits at step
Completes(k, step, next) == ipc[k] = step /\ ipc'[k] = next

\* C17 as stated, for the report: a stored report is not replaced by a later
\* saveReport
C17_FirstInsertWins ==
  [][\A r \in Refs : pr_reports[r] # NoRow => pr_reports'[r] = pr_reports[r]]_vars

C17_Step ==
  /\ \A k \in Items :
       /\ Completes(k, "savePullRequest", "saveEntities") =>
            pull_requests'[prList[k]] = Writer(k)
       /\ Completes(k, "saveReport", "readBack") =>
            pr_reports'[prList[k]] = Writer(k)
  /\ \A r \in Refs :
       /\ pull_requests'[r] # pull_requests[r] =>
            \E k \in Items : prList[k] = r /\ Completes(k, "savePullRequest", "saveEntities")
       /\ pr_reports'[r] # pr_reports[r] =>
            \E k \in Items : prList[k] = r /\ Completes(k, "saveReport", "readBack")

\* C17, amended: for pipelines racing on one ref both stored rows are those of
\* the last writer: every savePullRequest leaves its own metadata and every
\* saveReport leaves its own report in place of the stored one, and nothing
\* else changes the rows.
C17_LastWriterWins == [][C17_Step]_vars

\* both items of one ref have saved their report; the one stored is item 1's
\* although item 2 has already returned
C17_Witness ==
  /\ N = 2
  /\ prList[1] = prList[2]
  /\ ipc[1] = "readBack"
  /\ ipc[2] = "returnedFresh"
  /\ pr_reports[prList[1]] = Writer(1)
  /\ pull_requests[prList[1]] = Writer(2)

\* ---- C18 ----------------------------------------------------------
RowsOf(table, prId) == { n \in DOMAIN table : table[n].pr_id = prId }

AtMostOne(table) == \A p \in PrIds : Cardinality(RowsOf(table, p)) <= 1

\* the data stored for prId, None without a row
StoredFor(table, prId) == { table[n].data : n \in RowsOf(table, prId) }

\* run n made the save it awaited at pos
Saved(n, pos) == runs[n].pos = pos /\ runs'[n].pos # pos

C18_Step ==
  \A n \in DOMAIN runs :
    /\ Saved(n, "saveCommitDiff") =>
         /\ StoredFor(commit_diffs', runs[n].pr_id) = Some(runs[n].diffData)
         /\ Len(commit_diffs') =
              Len(commit_diffs) + (IF RowsOf(commit_diffs, runs[n].pr_id) = {} THEN 1 ELSE 0)
    /\ Saved(n, "saveReviewDrivenChanges") =>
         /\ StoredFor(review_driven_changes', runs[n].pr_id) = Some(runs[n].reviewData)
         /\ Len(review_driven_changes') =
              Len(review_driven_changes)
                + (IF RowsOf(review_driven_changes, runs[n].pr_id) = {} THEN 1 ELSE 0)

\* C18: whatever runs have saved, in whatever order, each pull request has at
\* most one row in commit_diffs and at most one in review_driven_changes, and
\* a save for a pull request that has a row replaces that row's data without
\* adding a row.
C18_AtMostOne ==
  /\ [](AtMostOne(commit_diffs) /\ AtMostOne(review_driven_changes))
  /\ [][C18_Step]_vars

\* two runs for one pull request with different summaries and change sets
\* have both finished, and each table holds one row
C18_Witness ==
  /\ runs # << >>
  /\ \A n \in DOMAIN runs : runs[n].pos = "done"
  /\ \E m, n \in DOMAIN runs :
       /\ runs[m].pr_id = runs[n].pr_id
       /\ runs[m].diffData # runs[n].diffData
       /\ runs[m].reviewData # runs[n].reviewData
       /\ Len(commit_diffs) = 1
       /\ Len(review_driven_changes) = 1
       /\ StoredFor(commit_diffs, runs[m].pr_id) = Some(runs[m].diffData)
       /\ StoredFor(review_driven_changes, runs[m].pr_id) = Some(runs[n].reviewData)

\* ---- C19 ----------------------------------------------------------
\* the number of items of waves 1..w
UpTo(w) == Min(w * concurrencyLimit, N)

\* the items processSinglePRWithTimeout has been called for
Started == { k \in Items : ipc[k] # "idle" }

\* this step starts a wave
WaveStarts == waves' = waves + 1

\* this step is the return of Promise.allSettled up to the next loop test
WaveCollected == bpc = "allSettled" /\ bpc' = "loop"

C19_Step ==
  /\ WaveCollected =>
       /\ The(batch').results # The(batch).results
       /\ The(batch').results = Some(results')
       /\ The(batch').completed_count = UpTo(waves)
       /\ Len(results') = UpTo(waves)
       /\ \A k \in 1..UpTo(waves) : results'[k] = Outcome(k)
  /\ The(batch').results # The(batch).results => WaveCollected
  /\ WaveStarts =>
       /\ bpc = "loop"
       /\ Started = 1..UpTo(waves)
       /\ waves > 0 =>
            /\ The(batch).results = Some(results)
            /\ The(batch).completed_count = UpTo(waves)
            /\ Len(results) = UpTo(waves)
       /\ Started' = 1..UpTo(waves + 1)

\* C19: the result list is written by updateBatchProgress once per wave, at
\* the end of the wave and at no other step; the list written after wave k
\* holds the outcomes of all items of waves 1..k; and when wave k+1 starts the
\* row already holds the list of wave k and no item beyond wave k has run.
C19_FlushPerWave ==
  /\ [](batch # None =>
          /\ The(batch).completed_count =
               UpTo(IF bpc = "allSettled" THEN waves - 1 ELSE waves)
          /\ Len(Stored) = The(batch).completed_count
          /\ Started = 1..UpTo(waves))
  /\ [][batch # None /\ batch' # None => C19_Step]_vars

\* wave 2 is running and the row holds the outcome of wave 1
C19_Witness ==
  /\ batch # None
  /\ waves = 2
  /\ bpc = "allSettled"
  /\ The(batch).results = Some(results)
  /\ Len(results) = 1
  /\ ipc[2] = "fetchPRData"

\* ---- C20 ----------------------------------------------------------
\* the items started whose outcome is not in the result list
Unrecorded == { k \in Started : k > Len(results) }

WaveOf(k) == Ceil(k, concurrencyLimit)

\* C20: the items started and not yet recorded are never more than
\* concurrencyLimit, and they all belong to one wave.
C20_ConcurrencyBound ==
  /\ Cardinality(Unrecorded) <= concurrencyLimit
  /\ \A j, k \in Unrecorded : WaveOf(j) = WaveOf(k)
  /\ bpc = "allSettled" => Unrecorded = { k \in Items : WaveOf(k) = waves }

\* both items of a wave of two are unrecorded, one settled and one running
C20_Witness ==
  /\ concurrencyLimit = 2
  /\ Unrecorded = {1, 2}
  /\ settled[1].status = "fulfilled"
  /\ settled[2].status = "pending"
  /\ ipc[2] = "generatePRReport"

\* ---- C21 ----------------------------------------------------------
\* the outcomes an item can have: success, a raised failure, its timeout
OwnOutcomes(k) ==
  { SuccessResult(prList[k]), FailureResult(prList[k], TimeoutMessage(prList[k])) }
    \cup { FailureResult(prList[k], PipelineErrorMessage(m)) : m \in RaiseMsgs }

\* a wave is in flight and the batch deadline has passed
LateWave == bpc = "allSettled" /\ DeadlineExceeded

C21_Step ==
  LateWave =>
    /\ The(batch').status = "processing"
    /\ waves' = waves
    /\ \A k \in Items : settled[k].status # "pending" => settled'[k] = settled[k]
    /\ bpc' # bpc =>
         /\ bpc' = "loop"
         /\ \A k \in Chunk : settled[k].status # "pending" /\ Outcome(k) \in OwnOutcomes(k)
         /\ results' = results \o [j \in 1..Cardinality(Chunk) |-> Outcome(i + j)]
         /\ The(batch').results = Some(results')
         /\ The(batch').completed_count = Len(results')

\* C21: while a wave is in flight past the batch deadline no step fails the
\* batch or undoes a settlement; the wave ends only when each of its items
\* has its own outcome (success, failure or per-item timeout), and that step
\* appends the outcomes and writes them to the row; a batch failed by the
\* deadline therefore holds the outcomes of every wave that was started.
C21_LateWaveFinishes ==
  /\ [](batch # None /\ The(batch).status = "failed" =>
          /\ Len(Stored) = Min(waves * concurrencyLimit, N)
          /\ \A k \in 1..Len(Stored) : Stored[k] \in OwnOutcomes(k))
  /\ [][C21_Step]_vars

\* the deadline has passed while the first of two waves is in flight, one
\* item of it still generating its report
C21_Witness ==
  /\ LateWave
  /\ N = 2
  /\ waves = 1
  /\ concurrencyLimit = 1
  /\ ipc[1] = "generatePRReport"
  /\ settled[1].status = "pending"

\* ---- C22 ----------------------------------------------------------
Filenames(files) == { files[n].filename : n \in DOMAIN files }

\* the last entry of a file list for a filename
LastOf(files, name) ==
  files[CHOOSE n \in DOMAIN files :
          /\ files[n].filename = name
          /\ \A m \in DOMAIN files : files[m].filename = name => m <= n]

\* additions, deletions and changes agree
SameCounts(e, f) ==
  e.additions = f.additions /\ e.deletions = f.deletions /\ e.changes = f.changes

\* the stored diff was built from the base-head comparison
FromComparison(d) ==
  /\ Data.comparison # None
  /\ d.first_commit_sha = The(Data.comparison).base_commit
  /\ d.last_commit_sha = The(Data.comparison).head_commit
  /\ Len(d.files_changed) = Len(The(Data.comparison).files)
  /\ \A n \in DOMAIN d.files_changed :
       /\ d.files_changed[n].filename = The(Data.comparison).files[n].filename
       /\ SameCounts(d.files_changed[n], The(Data.comparison).files[n])
  /\ TotalsMatchFiles(d)

\* the stored diff is bounded by the first and the last commit of the PR
BoundedByCommits(d) ==
  /\ d.first_commit_sha = commits[1].commit_sha
  /\ d.last_commit_sha = commits[Len(commits)].commit_sha

\* the stored diff was built from the PR-level file listing
FromListing(d) ==
  /\ BoundedByCommits(d)
  /\ Filenames(d.files_changed) = Filenames(Data.files)
  /\ Len(d.files_changed) = Cardinality(Filenames(Data.files))
  /\ \A n \in DOMAIN d.files_changed :
       SameCounts(d.files_changed[n], LastOf(Data.files, d.files_changed[n].filename))
  /\ TotalsMatchFiles(d)

\* the stored diff was aggregated from the commits' own file lists
FromCommitFiles(d) ==
  /\ BoundedByCommits(d)
  /\ Filenames(d.files_changed) =
       UNION { Filenames(rawCommits[n].files) : n \in DOMAIN rawCommits }
  /\ Len(d.files_changed) = Cardinality(Filenames(d.files_changed))
  /\ d.total_additions = SumOf(commits, Additions)
  /\ d.total_deletions = SumOf(commits, Deletions)

\* the run is past the save of the full-range diff
DiffStored == dpc \notin {"none", "saveCommits", "saveCommitDiff", "doneNoCommits"}

\* C22: the stored full-range diff is built from the base-head comparison
\* exactly when that was fetched with a non-empty file list; otherwise from
\* the PR-level file listing when that is non-empty; otherwise by aggregating
\* the commits' own file lists.  For an empty commit list the fallback
\* builder returns null bounds, zero totals and no file, and the run stores
\* no diff.
C22_SourcePreference ==
  /\ DiffStored =>
       /\ Len(commit_diffs) = 1
       /\ (Data.comparison # None /\ The(Data.comparison).files # << >>)
            <=> FromComparison(commit_diffs[1].data)
       /\ (~FromComparison(commit_diffs[1].data) /\ Data.files # << >>)
            => FromListing(commit_diffs[1].data)
       /\ (~FromComparison(commit_diffs[1].data) /\ Data.files = << >>)
            => FromCommitFiles(commit_diffs[1].data)
  /\ githubData # None =>
       buildCommitDiffFromMetadata(<< >>, << >>, Data.files) =
         [first_commit_sha |-> NULL, last_commit_sha |-> NULL, total_additions |-> 0,
          total_deletions |-> 0, total_changed_files |-> 0, files_changed |-> << >>]
  /\ dpc = "doneNoCommits" => commit_diffs = << >>

\* the comparison was fetched but lists no file, and the stored diff is the
\* PR-level listing with its duplicate filename merged
C22_Witness ==
  /\ DiffStored
  /\ Data.comparison # None
  /\ The(Data.comparison).files = << >>
  /\ Data.files = << FileA1, FileA2 >>
  /\ Len(commits) = 2
  /\ Len(commit_diffs[1].data.files_changed) = 1
  /\ commit_diffs[1].data.total_additions = 2
  /\ commit_diffs[1].data.first_commit_sha \in {"c1", "c2"}

\* ---- C23 ----------------------------------------------------------
\* every file entry of every commit, in commit order
RECURSIVE Flatten(_)
Flatten(lists) == IF lists = << >> THEN << >> ELSE Head(lists) \o Flatten(Tail(lists))

CommitFiles == Flatten([n \in DOMAIN rawCommits |-> rawCommits[n].files])

\* the entries of the commits for one filename
Touching(name) == SelectSeq(CommitFiles, LAMBDA f : f.filename = name)

Changes(f) == f.changes

\* the patches of full length no shorter than any other for the filename
Longest(name) ==
  { Touching(name)[n].patch : n \in { m \in DOMAIN Touching(name) :
      \A l \in DOMAIN Touching(name) :
        Touching(name)[l].patch.len <= Touching(name)[m].patch.len } }

\* one entry per filename, holding the sums over the commits
MergedCounts(d) ==
  /\ Filenames(d.files_changed) = Filenames(CommitFiles)
  /\ Len(d.files_changed) = Cardinality(Filenames(CommitFiles))
  /\ \A n \in DOMAIN d.files_changed :
       LET e == d.files_changed[n]
       IN /\ e.additions = SumOf(Touching(e.filename), Additions)
          /\ e.deletions = SumOf(Touching(e.filename), Deletions)
          /\ e.changes = SumOf(Touching(e.filename), Changes)

\* the excerpt of each entry is cut from a longest patch of its filename
LongestPatchKept(d) ==
  \A n \in DOMAIN d.files_changed :
    d.files_changed[n].patch \in
      { slice(p, 2000) : p \in Longest(d.files_changed[n].filename) }

\* C23: a diff aggregated from the commits has one entry per distinct
\* filename, with additions, deletions and changes summed over every commit
\* touching the filename and with the patch excerpt cut from the longest
\* patch any commit has for that filename.
C23_MergedByFilename ==
  Aggregated =>
    /\ MergedCounts(commit_diffs[1].data)
    /\ LongestPatchKept(commit_diffs[1].data)

\* ---- C24 ----------------------------------------------------------
\* the words of a message occur at position at, whatever their case
WordsAt(message, at, words) ==
  /\ at + Len(words) - 1 <= Len(message)
  /\ \A n \in DOMAIN words : toLowerCase(message[at + n - 1]) = words[n]

\* the rule of the claim, for a transformed commit
MergeByRule(c) ==
  \/ WordsAt(c.commit_message, 1, << "merge", " " >>)
  \/ \E at \in DOMAIN c.commit_message :
       \/ WordsAt(c.commit_message, at, << "merge", " ", "branch" >>)
       \/ WordsAt(c.commit_message, at, << "merge", " ", "pull", " ", "request" >>)
  \/ (IF c.raw_data.parents = 0 THEN 1 ELSE c.raw_data.parents) > 1

\* the shas of a commit list, in order
Shas(list) == [n \in DOMAIN list |-> list[n].commit_sha]

\* the commits the rule keeps, in order
KeptByRule == SelectSeq(commits, LAMBDA c : ~MergeByRule(c))

Finished == dpc \in {"doneReviewChanges", "doneNoReviewChanges"}

\* C24 as stated: the effective list is the commit list without the commits
\* the rule names
C24_ExcludedIff ==
  Finished =>
    Shas(effectiveCommits(commits)) = Shas(KeptByRule)

\* C24, amended: the filter drops a commit if and only if the rule names it
\* (missing parent data counting as one parent) and keeps the order of the
\* others; the effective list is the filtered list unless that is empty, in
\* which case no commit is excluded and the effective list is the whole
\* commit list.
C24_FilterRule ==
  Finished =>
    /\ Shas(nonMergeCommits(commits)) = Shas(KeptByRule)
    /\ KeptByRule # << >> => Shas(effectiveCommits(commits)) = Shas(KeptByRule)
    /\ KeptByRule = << >> => effectiveCommits(commits) = commits
    /\ dpc = "doneReviewChanges" <=> Len(effectiveCommits(commits)) > 1

\* a commit without parent data is kept between a commit dropped for its
\* upper-case prefix and one dropped for a phrase inside its message
C24_Witness ==
  /\ Finished
  /\ Shas(commits) = << "c6", "c1", "c4" >>
  /\ commits[2].raw_data.parents = 0
  /\ Shas(effectiveCommits(commits)) = << "c1" >>
  /\ dpc = "doneNoReviewChanges"

\* ---- C25 ----------------------------------------------------------
\* the pair the comparison was requested for
Requested == The(reviewRange)

\* the commits that are the bounds of the request
Bounds == { Requested.firstCommitSha, Requested.lastCommitSha }

MergeShas == { commits[n].commit_sha : n \in { m \in DOMAIN commits : MergeByRule(commits[m]) } }

\* the request is for the first and the last commit of list
Compares(list) ==
  /\ Len(list) > 1
  /\ Requested = Range(list[1].commit_sha, list[Len(list)].commit_sha)

\* C25 as stated: the comparison is between the first and the last commit
\* the filter keeps, and no merge commit bounds it
C25_NoMergeBound ==
  (githubData # None /\ ReviewPath) =>
    /\ reviewRange # None
    /\ Compares(KeptByRule)
    /\ Bounds \cap MergeShas = {}

\* C25, amended: when more than one effective commit remains, one comparison
\* is requested, between the first and the last effective commit in commit
\* order; when the filter keeps a commit those are the first and the last
\* commit kept, so no intermediate commit and no merge commit is a bound;
\* when every commit of the PR is a merge commit the bounds are the first
\* and the last commit of the PR.  Without more than one effective commit
\* nothing is compared.
C25_FirstLastEffective ==
  /\ (githubData # None /\ ReviewPath) =>
       /\ reviewRange # None
       /\ KeptByRule # << >> =>
            /\ Compares(KeptByRule)
            /\ Bounds \cap MergeShas = {}
            /\ \A n \in 2..(Len(KeptByRule) - 1) : KeptByRule[n].commit_sha \notin Bounds
       /\ KeptByRule = << >> => Compares(commits)
  /\ ~ReviewPath => reviewRange = None

\* three commits the filter keeps, around them a merge commit: the first
\* is compared with the third
C25_Witness ==
  /\ dpc = "doneReviewChanges"
  /\ Shas(KeptByRule) = << "c1", "c2", "c7" >>
  /\ Requested = Range("c1", "c7")
  /\ Len(commits) = 3

\* ---- C26 ----------------------------------------------------------
Terminal == batch # None /\ The(batch).status \in {"completed", "failed"}

\* C26: with every Progress Store call returning, a batch that was created
\* eventually has status completed or failed, whether or not the calls of
\* its items' pipelines ever return.
C26_Terminates == (batch # None) ~> Terminal

\* a completed batch one of whose items timed out while its pipeline still
\* waits for the GitHub fetch
C26_Witness ==
  /\ Terminal
  /\ The(batch).status = "completed"
  /\ \E k \in Items : TimedOut(k) /\ ipc[k] = "fetchPRData"

\* ---- C27 ----------------------------------------------------------
\* C27: in every state of the batch row the completed count is the length
\* of the stored result list and at most the total count, so that the
\* percentage a poll computes lies in 0..100; and a completed row has
\* completed count = total count = number of scheduled items.
C27_CountMatchesResults ==
  batch # None =>
    /\ The(batch).completed_count = Len(Stored)
    /\ The(batch).completed_count <= The(batch).total_count
    /\ PollResponse(The(batch)).progress_percentage \in 0..100
    /\ PollResponse(The(batch)).completed_prs = Len(PollResponse(The(batch)).results)
    /\ The(batch).status = "completed" =>
         /\ The(batch).completed_count = The(batch).total_count
         /\ The(batch).total_count = Len(prList)
         /\ Len(The(batch).pr_list) = Len(prList)

\* a row completed after two waves of one item
C27_Witness ==
  /\ batch # None
  /\ The(batch).status = "completed"
  /\ The(batch).completed_count = 2
  /\ The(batch).total_count = 2
  /\ PollResponse(The(batch)).progress_percentage = 100
  /\ concurrencyLimit = 1

\* ---- C28 ----------------------------------------------------------
\* the entry names the pull request
RefersTo(entry, pr) ==
  entry.org = pr.org /\ entry.repo = pr.repo /\ entry.pr_number = pr.pr_number

\* C28: whenever the row holds a result list, at a flush or at completion,
\* its k-th entry names the k-th scheduled item, in whatever order the items
\* of a wave returned or timed out.
C28_ResultOrder ==
  batch # None =>
    /\ Len(Stored) <= Len(The(batch).pr_list)
    /\ \A k \in 1..Len(Stored) :
         /\ RefersTo(Stored[k], The(batch).pr_list[k])
         /\ RefersTo(Stored[k], prList[k])
    /\ \A k \in 1..Len(results) : RefersTo(results[k], prList[k])

\* a wave of two different refs in which the first item timed out, its
\* pipeline still running, and the second returned a Success
C28_Witness ==
  /\ batch # None
  /\ The(batch).status = "completed"
  /\ concurrencyLimit = 2
  /\ prList = << RefA, RefB >>
  /\ TimedOut(1)
  /\ ipc[1] = "generatePRReport"
  /\ Stored[1] = FailureResult(RefA, TimeoutMessage(RefA))
  /\ Stored[2] = SuccessResult(RefB)

\* ---- C29 ----------------------------------------------------------
\* every wave of the batch has been started
LastWaveStarted == waves = Ceil(N, concurrencyLimit)

C29_Step ==
  (batch # None /\ The(batch').status = "failed" /\ The(batch).status # "failed") =>
    /\ bpc = "loop"
    /\ i < N
    /\ ~LastWaveStarted
    /\ DeadlineExceeded

\* C29: the batch is failed by the deadline only at the test before a wave
\* that is still to start; once the last wave has been started the deadline
\* is not looked at again, and the batch ends completed with its N results
\* even when the deadline has passed meanwhile.
C29_NoCheckAfterLastWave ==
  /\ [](batch # None =>
          /\ (LastWaveStarted /\ bpc = "done") =>
               /\ The(batch).status = "completed"
               /\ Len(Stored) = N
          /\ LastWaveStarted => The(batch).status # "failed")
  /\ [][C29_Step]_vars

\* two waves ran, the deadline has passed, and the batch is completed with
\* both results
C29_Witness ==
  /\ batch # None
  /\ DeadlineExceeded
  /\ waves = 2
  /\ The(batch).status = "completed"
  /\ Len(Stored) = 2
  /\ \E k \in Items : TimedOut(k)

\* ---- C30 ----------------------------------------------------------
\* item k leaves the cache check at this step
LeavesCacheCheck(k) ==
  ipc[k] \in {"getPullRequest", "getReport"} /\ ipc'[k] \notin {"getPullRequest", "getReport"}

C30_Step ==
  \A k \in Items :
    LeavesCacheCheck(k) =>
      /\ ipc'[k] = "returnedCached" =>
           /\ pull_requests[prList[k]] # NoRow
           /\ pr_reports[prList[k]] # NoRow
      /\ (pull_requests[prList[k]] # NoRow /\ pr_reports[prList[k]] = NoRow) =>
           ipc'[k] \in {"fetchPRData", "returnedFailure"}

\* C30: an item is answered from the cache only when both the pull-request
\* row and the report of its ref are stored; with the pull-request row alone,
\* left by a run that failed before its report was saved, the item goes on
\* to the fetch, and it returns a Success only after the fetch and the
\* report generation have been called again.
C30_HitNeedsReport ==
  /\ [](\A k \in Items :
          /\ ipc[k] = "returnedCached" => pr_reports[prList[k]] # NoRow
          /\ ipc[k] = "returnedFresh" => {"fetch", "generate"} \subseteq calls[k])
  /\ [][C30_Step]_vars

\* the first run for the ref failed after the pull request was saved and the
\* report generation was called; the second item of the same ref, started
\* after it, ran the fetch and the generation again and stored the report
C30_Witness ==
  /\ N = 2
  /\ concurrencyLimit = 1
  /\ prList[1] = prList[2]
  /\ ipc[1] = "returnedFailure"
  /\ ~TimedOut(1)
  /\ "generate" \in calls[1]
  /\ ipc[2] = "returnedFresh"
  /\ {"fetch", "generate"} \subseteq calls[2]
  /\ pr_reports[prList[2]] = Writer(2)

====
